---------------------------- MODULE Spec2Model ----------------------------
(***************************************************************************)
(* A model of the price_detect pipeline: the delay-gated LabelGenerator,   *)
(* the AlertEngine with its cooldown map and risk filter, the              *)
(* OrderBookMonitor, and the paper-trading engine (VirtualAccount,         *)
(* PositionManager, StopLossManager, RealtimeSimEngine).                   *)
(*                                                                         *)
(* Each component has its own group of variables and its own               *)
(* specification; a component's specification leaves the other groups at   *)
(* their initial value.  Times are whole seconds.  Prices and money are    *)
(* integers (a fixed-point scale stated where it is used); the Python      *)
(* float comparisons are modelled by exact cross-multiplied integer        *)
(* comparisons.                                                            *)
(***************************************************************************)
EXTENDS Integers, Sequences, FiniteSets, TLC

VARIABLES
    \* ---- LabelGenerator (src/src/ml/label_generator.py)
    lgNow,            \* the wall clock read by datetime.now()
    pending,          \* LabelGenerator._pending: symbol -> sequence of features
    generated,        \* the list returned by the last try_generate_labels call
    labelStore,       \* labels saved by MonitorApp._generate_ml_labels
    generatedCount,   \* LabelGenerator._generated_count
    droppedCount,     \* LabelGenerator._dropped_count
    registered,       \* number of register_feature calls made so far
    priceSeen,        \* the recorded prices the last try_generate_labels read
    \* ---- MonitorApp (src/main.py): what its components share
    clock,            \* the wall clock read by the alert and order-book paths
    notified,         \* the alerts handed to AlertNotifier.notify, in order
    delivered,        \* how many of them _process_queue has taken off the queue
    \* ---- OrderBookMonitor (src/src/orderbook_monitor.py)
    snapshots,        \* OrderBookMonitor._snapshots
    trackedWalls,     \* OrderBookMonitor._tracked_walls
    obCooldowns,      \* OrderBookMonitor._cooldowns
    obEvents,         \* the list returned by the last process_snapshot call
    obProcessed,      \* number of process_snapshot calls made so far
    wallLog,          \* the walls the monitor saw appear and disappear, with the time
    wallEvents,       \* RiskFilter._wall_events: symbol -> sequence of <<ts, type>>
    \* ---- AlertEngine and PriceTracker (src/src/alert_engine.py,
    \*      src/src/price_tracker.py)
    settings,         \* AlertEngine.settings, as far as the detectors read it
    trackers,         \* PriceTracker._trackers: symbol -> SymbolTracker
    cooldowns,        \* AlertEngine._cooldowns
    emitted,          \* every event returned by check_all so far, in order
    batches,          \* number of process_tickers calls made so far
    oiPolls,          \* number of update_oi calls made so far
    alertRows,        \* the rows of the MLDataStore alerts table
    lastCleanup,      \* clock reading of the last cleanup_old_data call
    \* ---- paper trading (src/src/ml/trading, src/main.py)
    account,          \* VirtualAccount: balance, positions, trades, statistics
    posIndex,         \* PositionManager._positions_by_symbol, as position ids
    opened,           \* number of positions created so far (their ids)
    engine,           \* RealtimeSimEngine: _running, _last_save_time, counters
    latestPrices,     \* RealtimeSimEngine._latest_prices (0: no entry)
    tradingStore,     \* what the TradingDataStore was asked to save
    exitChecks,       \* the check_exit calls of the last feature update
    lastCall,         \* the last trading call and what open_position did in it
    tradeSteps,       \* number of feature updates and open_position calls so far
    shutdowns,        \* number of MonitorApp.stop calls so far
    \* ---- web dashboard thread (src/src/web/app.py)
    closing,          \* the trade of a close_position call between removal and record
    dashboard,        \* the last /api/account response and the number of requests
    \* ---- MLStrategy (src/src/ml/trading/strategy.py)
    strategyCall,     \* the strategy's configuration and its last generate_signal call
    \* ---- FeatureEngine (src/src/ml/feature_engine.py)
    featureCall,      \* the last compute_features call: its symbol and what it returned
    \* ---- RiskFilter (src/src/ml/risk_filter.py)
    riskCall,         \* the filter's configuration and its last check_risk call
    \* ---- StopLossManager (src/src/ml/trading/stop_loss.py)
    stopLossMethod    \* config.method of the engine's stop-loss manager

labelVars == <<lgNow, pending, generated, labelStore, generatedCount,
               droppedCount, registered, priceSeen>>

sinkVars == <<clock, notified, delivered>>

bookVars == <<snapshots, trackedWalls, obCooldowns, obEvents, obProcessed,
              wallLog, wallEvents>>

alertVars == <<settings, trackers, cooldowns, emitted, batches, oiPolls,
               alertRows, lastCleanup>>

tradeVars == <<account, posIndex, opened, engine, latestPrices, tradingStore,
               exitChecks, lastCall, tradeSteps, shutdowns>>

strategyVars == <<strategyCall, featureCall, riskCall, stopLossMethod>>

webVars == <<closing, dashboard>>

vars == <<labelVars, sinkVars, bookVars, alertVars, tradeVars, strategyVars,
          webVars>>

\* What the actions of one component leave alone.
labelRest == <<sinkVars, bookVars, alertVars, tradeVars, strategyVars, webVars>>

bookRest == <<labelVars, alertVars, tradeVars, strategyVars, webVars>>

alertRest == <<labelVars, bookVars, tradeVars, strategyVars, webVars>>

tradeRest == <<labelVars, notified, delivered, bookVars, alertVars, strategyVars,
               webVars>>

strategyRest == <<labelVars, sinkVars, bookVars, alertVars, tradeVars, webVars>>

webRest == <<labelVars, sinkVars, bookVars, alertVars, strategyVars>>

-----------------------------------------------------------------------------
(***************************************************************************)
(* Generic helpers                                                         *)
(***************************************************************************)

\* The last n elements of s (Python s[-n:], for n >= 1).
LastN(s, n) == IF Len(s) <= n THEN s ELSE SubSeq(s, Len(s) - n + 1, Len(s))

SeqToSet(s) == {s[i] : i \in 1..Len(s)}

-----------------------------------------------------------------------------
(***************************************************************************)
(* LabelGenerator                                                          *)
(***************************************************************************)

Abs(x) == IF x < 0 THEN -x ELSE x

LabelSymbols == {"AAAUSDT"}

\* LABEL_WINDOWS['30m'], the longest label window, in seconds.
MaxLabelWindow == 1800

\* The buffer added to the longest window in _max_wait_seconds.
WaitBuffer == 600

\* LabelGenerator._max_wait_seconds
MaxWaitSeconds == MaxLabelWindow + WaitBuffer

\* LabelGenerator.max_pending_per_symbol, scaled down.
MaxPendingPerSymbol == 2

\* How many register_feature calls a behaviour makes.
MaxRegistered == 3

\* The clock readings the model distinguishes: the start, and one second
\* before, at and after each of the two deadlines, for features taken at
\* second 0, 1 and WaitBuffer.
ClockReadings ==
    {0, 1, WaitBuffer}
    \cup {MaxLabelWindow + d : d \in {-1, 0, 1}}
    \cup {MaxWaitSeconds + d : d \in {-1, 0, 1}}
    \cup {MaxWaitSeconds + WaitBuffer}

\* feature.price values: 0 makes _compute_label return None.
FeaturePrices == {0, 100}

\* The feature vector as far as the label generator reads it.
Feature(s, ts, p) == [symbol |-> s, timestamp |-> ts, price |-> p]

\* LABEL_WINDOWS, in seconds: 1m, 5m, 15m, 30m.
LabelWindows == {60, 300, 900, 1800}

\* MLLabel: returns[w] is return_1m .. return_30m, in percent.
MLLabel(s, featureTs, at, returns) ==
    [symbol |-> s, timestamp |-> featureTs, label_generated_at |-> at,
     returns |-> returns]

NoLabel ==
    [symbol |-> "", timestamp |-> -1, label_generated_at |-> -1,
     returns |-> [w \in LabelWindows |-> 0]]

\* A recorded price: a PricePoint of the tracker's price_history or a row of
\* the price_snapshots table.
PricePoint(ts, p) == [timestamp |-> ts, price |-> p]

\* The tolerance of _get_price_at_time, in seconds.
PriceTolerance == 5

\* The loop over tracker.price_history: the first point at the smallest
\* distance from target.
ClosestIndex(history, target) ==
    CHOOSE i \in 1..Len(history) :
        /\ \A j \in 1..Len(history) :
              Abs(history[i].timestamp - target) <= Abs(history[j].timestamp - target)
        /\ \A j \in 1..(i - 1) :
              Abs(history[j].timestamp - target) > Abs(history[i].timestamp - target)

\* MLDataStore.get_price_at_time(symbol, target_ts, tolerance_seconds=5):
\* the closest row between target - 5 and target + 5, both included;
\* 0 stands for None.
StorePriceAtTime(rows, target) ==
    LET near == {r \in rows : Abs(r.timestamp - target) <= PriceTolerance}
    IN  IF near = {} THEN 0
        ELSE (CHOOSE r \in near :
                \A o \in near :
                    Abs(r.timestamp - target) <= Abs(o.timestamp - target)).price

\* A tracker that accepts a point at any distance.
GetPriceAtTimeMutant(src, target) ==
    IF src.history # <<>>
    THEN src.history[ClosestIndex(src.history, target)].price
    ELSE StorePriceAtTime(src.rows, target)

\* _get_price_at_time(symbol, target_ts): the tracker's closest point when
\* it is less than 5 seconds away, else the data store; 0 stands for None.
GetPriceAtTime(src, target) ==
    IF /\ src.history # <<>>
       /\ Abs(src.history[ClosestIndex(src.history, target)].timestamp - target)
              < PriceTolerance
    THEN src.history[ClosestIndex(src.history, target)].price
    ELSE StorePriceAtTime(src.rows, target)

\* returns[window_name]: ((future_price - base_price) / base_price) * 100,
\* and 0.0 when no future price was found.  The prices of the model make
\* the division exact.
ReturnPct(future, base) ==
    IF future = 0 THEN 0 ELSE ((future - base) * 100) \div base

\* A loop that keeps an entry it cannot label, to try it again.
StillPendingRetryMutant(f, now) ==
    now - f.timestamp < MaxLabelWindow \/ f.price = 0

\* A loop that also keeps the entry whose window has just elapsed.
StillPendingMutant(f, now) == now - f.timestamp <= MaxLabelWindow

\* try_generate_labels: `elapsed < max_window` keeps the entry pending.
StillPending(f, now) == now - f.timestamp < MaxLabelWindow

\* _compute_label(symbol, feature_ts, feature), read at clock value `at`:
\* None for a zero base price or when the time validation fails.  src is
\* what the tracker and the data store hold for the symbol.
ComputeLabel(s, f, at, src) ==
    IF f.price = 0 THEN NoLabel
    ELSE IF at - f.timestamp < MaxLabelWindow THEN NoLabel
    ELSE MLLabel(s, f.timestamp, at,
                 [w \in LabelWindows |->
                     ReturnPct(GetPriceAtTime(src, f.timestamp + w), f.price)])

\* _cleanup_pending: drop entries with ts <= now - max_wait, then keep the
\* newest max_pending_per_symbol.
CleanupValid(q, now) ==
    LET Fresh(f) == f.timestamp > now - MaxWaitSeconds
    IN  SelectSeq(q, Fresh)

\* A cleanup that keeps the oldest max_pending_per_symbol entries.
CleanupPendingMutant(q, now) ==
    IF Len(CleanupValid(q, now)) <= MaxPendingPerSymbol
    THEN CleanupValid(q, now)
    ELSE SubSeq(CleanupValid(q, now), 1, MaxPendingPerSymbol)

CleanupPending(q, now) == LastN(CleanupValid(q, now), MaxPendingPerSymbol)

CleanupDropped(q, now) ==
    IF Len(CleanupValid(q, now)) > MaxPendingPerSymbol
    THEN Len(CleanupValid(q, now)) - MaxPendingPerSymbol
    ELSE 0

LabelInit ==
    /\ lgNow = 0
    /\ pending = [s \in LabelSymbols |-> <<>>]
    /\ generated = <<>>
    /\ labelStore = {}
    /\ generatedCount = 0
    /\ droppedCount = 0
    /\ registered = 0
    /\ priceSeen = [history |-> <<>>, rows |-> {}]

\* The wall clock advances to a later reading.
LabelTick ==
    /\ \E t \in ClockReadings : t > lgNow /\ lgNow' = t
    /\ UNCHANGED <<pending, generated, labelStore, generatedCount,
                   droppedCount, registered, priceSeen, labelRest>>

\* MonitorApp._process_ml_features -> LabelGenerator.register_feature with a
\* feature stamped datetime.now() by FeatureEngine.compute_features.
RegisterFeature(s, p) ==
    /\ registered < MaxRegistered
    /\ LET q == Append(pending[s], Feature(s, lgNow, p))
       IN  /\ pending' = [pending EXCEPT ![s] = CleanupPending(q, lgNow)]
           /\ droppedCount' = droppedCount + CleanupDropped(q, lgNow)
    /\ registered' = registered + 1
    /\ UNCHANGED <<lgNow, generated, labelStore, generatedCount, priceSeen,
                   labelRest>>

\* A generator that labels every pending entry, mature or not.
MatureLabelsMutant(s, q, now, at, src) ==
    [i \in 1..Len(q) |->
        MLLabel(s, q[i].timestamp, at, [w \in LabelWindows |-> 0])]

\* The labels try_generate_labels returns for queue q: one per mature entry
\* whose _compute_label is not None, in queue order.  `at` is the (possibly
\* later) clock reading _compute_label takes.
MatureLabels(s, q, now, at, src) ==
    LET Mature(f) == ~StillPending(f, now) /\ ComputeLabel(s, f, at, src) # NoLabel
        m == SelectSeq(q, Mature)
    IN  [i \in 1..Len(m) |-> ComputeLabel(s, m[i], at, src)]

\* The mature entries whose _compute_label is None: counted in
\* _dropped_count and left out of still_pending.
MatureFailed(s, q, now, at, src) ==
    LET Failed(f) == ~StillPending(f, now) /\ ComputeLabel(s, f, at, src) = NoLabel
    IN  Len(SelectSeq(q, Failed))

\* What the tracker's price_history and the price_snapshots table may hold
\* for the symbol over a run: nothing, points around the 5m and 30m targets
\* of a feature taken at second 0 or 1, a point exactly 5 seconds after the
\* 30m target.
PriceHistories ==
    {<<>>,
     <<PricePoint(300, 104), PricePoint(1796, 101), PricePoint(1803, 102)>>,
     <<PricePoint(1805, 103)>>}

PriceRows == {{}, {PricePoint(60, 99), PricePoint(1805, 106)}}

\* The part of it recorded by clock reading t.
PriceSources(t) ==
    {[history |-> SelectSeq(h, LAMBDA pt : pt.timestamp <= t),
      rows |-> {r \in rows : r.timestamp <= t}] :
        h \in PriceHistories, rows \in PriceRows}

\* save_labels_batch: the labels table is unique on (symbol, timestamp),
\* the last writer wins.
SaveLabels(store, labels) ==
    LET new == SeqToSet(labels)
        Replaced(l) == \E n \in new : n.symbol = l.symbol /\ n.timestamp = l.timestamp
    IN  {l \in store : ~Replaced(l)} \cup new

\* MonitorApp._generate_ml_labels -> try_generate_all_labels ->
\* try_generate_labels(s), then save_labels_batch of what it returned.
TryGenerateLabels(s) ==
    \E at \in ClockReadings, src \in PriceSources(lgNow) :
        /\ at >= lgNow
        /\ at - lgNow <= 1
        /\ LET q == pending[s]
               Keep(f) == StillPending(f, lgNow)
               labels == MatureLabels(s, q, lgNow, at, src)
           IN  /\ pending' = [pending EXCEPT ![s] = SelectSeq(q, Keep)]
               /\ generated' = labels
               /\ generatedCount' = generatedCount + Len(labels)
               /\ droppedCount' = droppedCount + MatureFailed(s, q, lgNow, at, src)
               /\ labelStore' = SaveLabels(labelStore, labels)
        /\ lgNow' = at
        /\ priceSeen' = src
        /\ UNCHANGED <<registered, labelRest>>

LabelNext ==
    \/ LabelTick
    \/ \E s \in LabelSymbols, p \in FeaturePrices : RegisterFeature(s, p)
    \/ \E s \in LabelSymbols : TryGenerateLabels(s)

\* The label path over a run in which the clock keeps advancing and the
\* label task keeps running.  The clock readings end at
\* MaxWaitSeconds + WaitBuffer, so features are registered while the longest
\* window still fits before that reading.
LabelLiveNext ==
    \/ LabelTick
    \/ \E s \in LabelSymbols, p \in FeaturePrices :
          lgNow <= WaitBuffer /\ RegisterFeature(s, p)
    \/ \E s \in LabelSymbols : TryGenerateLabels(s)

-----------------------------------------------------------------------------
(***************************************************************************)
(* Order book snapshots and the RiskFilter decision                        *)
(*                                                                         *)
(* A level is <<price, quantity>>; prices and quantities are integers and  *)
(* a level's value is price * quantity.                                    *)
(***************************************************************************)

RECURSIVE SumValues(_)
\* sum(p * q for p, q in levels)
SumValues(levels) ==
    IF levels = <<>> THEN 0
    ELSE Head(levels)[1] * Head(levels)[2] + SumValues(Tail(levels))

\* Python levels[:n]
FirstN(s, n) == IF Len(s) <= n THEN s ELSE SubSeq(s, 1, n)

\* _snapshots.get(symbol) when nothing was stored yet.
NoSnapshot == [present |-> FALSE, bids |-> <<>>, asks |-> <<>>]

OrderBookSnapshot(bids, asks) == [present |-> TRUE, bids |-> bids, asks |-> asks]

\* best_bid / best_ask; 0 stands for None (the code only tests truthiness).
BestBid(snap) == IF snap.bids = <<>> THEN 0 ELSE snap.bids[1][1]

BestAsk(snap) == IF snap.asks = <<>> THEN 0 ELSE snap.asks[1][1]

BidDepth(snap, levels) == SumValues(FirstN(snap.bids, levels))

AskDepth(snap, levels) == SumValues(FirstN(snap.asks, levels))

\* OrderBookConfig defaults.
WallValueThreshold == 500000

WallRatioThreshold == 3

WallDistanceMax == 2

\* imbalance_threshold = 0.6, in tenths.
ImbalanceThresholdTenths == 6

ImbalanceDepthLevels == 10

SweepValueThreshold == 300000

\* settings.alerts.cooldown, passed to the monitor as cooldown_seconds.
BookCooldownSeconds == 300

\* The number of levels _detect_walls scans on each side.
WallScanLevels == 20

\* RiskConfig defaults.
MinDepthValue == 50000

MaxSpreadBps == 50

\* RiskFilter._check_liquidity through OrderBookMonitor.get_depth_info:
\* spread_bps = spread_percent * 100 > max_spread_bps, with
\* spread_percent = (ask - bid) / ((bid + ask) / 2) * 100 (0 when a side is
\* empty), and total depth < 2 * min_depth_value.
SpreadTooWide(snap) ==
    /\ snap.present
    /\ BestBid(snap) # 0 /\ BestAsk(snap) # 0
    /\ (BestAsk(snap) - BestBid(snap)) * 2 * 100 * 100
          > MaxSpreadBps * (BestBid(snap) + BestAsk(snap))

DepthTooThin(snap) ==
    /\ snap.present
    /\ BidDepth(snap, ImbalanceDepthLevels) + AskDepth(snap, ImbalanceDepthLevels)
          < MinDepthValue * 2

SetMax(S) == CHOOSE x \in S : \A y \in S : y <= x

SetMin(S) == CHOOSE x \in S : \A y \in S : x <= y

RECURSIVE SumVolumes(_)
SumVolumes(points) ==
    IF points = <<>> THEN 0 ELSE Head(points).volume + SumVolumes(Tail(points))

FakeSignalWindow == 30

\* fake_signal_revert_ratio = 0.8, in tenths.
FakeSignalRevertTenths == 8

FakeSignalMinChange == 1

\* The history lengths below which the fake-signal and the volume
\* manipulation checks give up.
FakeSignalMinHistory == 10

FakeSignalMinWindow == 5

VolumeManipulationHistory == 20

WallFlashWindow == 10

WallFlashCount == 3

\* volume_spike_ratio
VolumeSpikeRatio == 5

\* A fake-signal check that only looks for a drop that bounced back.
CheckFakeSignalMutant(hist, t) ==
    LET InWindow(p) == p.timestamp >= t - FakeSignalWindow
        w       == SelectSeq(hist, InWindow)
        start   == w[1].price
        current == w[Len(w)].price
        low     == SetMin({w[i].price : i \in 1..Len(w)})
    IN  /\ Len(hist) >= FakeSignalMinHistory
        /\ Len(w) >= FakeSignalMinWindow
        /\ start # 0
        /\ (start - low) * 100 > FakeSignalMinChange * start
        /\ low > 0
        /\ (current - low) * start * 10
              > FakeSignalRevertTenths * (start - low) * low

\* RiskFilter._check_fake_signal over the tracker's price history hist (a
\* sequence of [timestamp, price, volume]) at clock reading t.
CheckFakeSignal(hist, t) ==
    LET InWindow(p) == p.timestamp >= t - FakeSignalWindow
        w       == SelectSeq(hist, InWindow)
        start   == w[1].price
        current == w[Len(w)].price
        prices  == {w[i].price : i \in 1..Len(w)}
        high    == SetMax(prices)
        low     == SetMin(prices)
    IN  /\ Len(hist) >= FakeSignalMinHistory
        /\ Len(w) >= FakeSignalMinWindow
        /\ start # 0
        /\ \/ /\ (high - start) * 100 > FakeSignalMinChange * start
              /\ high > 0
              /\ (high - current) * start * 10
                    > FakeSignalRevertTenths * (high - start) * high
           \/ /\ (start - low) * 100 > FakeSignalMinChange * start
              /\ low > 0
              /\ (current - low) * start * 10
                    > FakeSignalRevertTenths * (start - low) * low

\* RiskFilter._check_volume_manipulation: an isolated volume peak among the
\* last 20 price points.
CheckVolumeManipulation(hist) ==
    LET n       == VolumeManipulationHistory
        recent  == LastN(hist, n)
        total   == SumVolumes(recent)
        vmax    == SetMax({recent[i].volume : i \in 1..n})
        idx     == SetMin({i \in 1..n : recent[i].volume = vmax})
        lo      == IF idx - 3 < 1 THEN 1 ELSE idx - 3
        hi      == IF idx + 3 > n THEN n ELSE idx + 3
        before  == SubSeq(recent, lo, idx - 1)
        after   == SubSeq(recent, idx + 1, hi)
        \* avg_x < avg * 1.5, with avg = total / n
        Quiet(part) ==
            IF part = <<>> THEN TRUE
            ELSE SumVolumes(part) * n * 2 < total * 3 * Len(part)
    IN  /\ Len(hist) >= n
        /\ total # 0
        /\ vmax * n > total * VolumeSpikeRatio
        /\ Quiet(before)
        /\ Quiet(after)

\* RiskFilter._check_wall_manipulation(symbol) over _wall_events[symbol],
\* empty for a symbol without an entry.
CheckWallManipulation(events, t) ==
    LET Recent(type) == {i \in 1..Len(events) :
                            events[i][1] >= t - WallFlashWindow /\ events[i][2] = type}
    IN  /\ Cardinality(Recent("appear")) >= WallFlashCount
        /\ Cardinality(Recent("disappear")) >= WallFlashCount

\* RiskFilter.check_risk followed by should_filter_alert, as AlertEngine
\* calls it (no snapshot argument, no ws_receive_time, so the latency is 0;
\* record_wall_event has no caller, so _wall_events is empty): TRUE when
\* get_filter_reasons() is not empty.
RiskShouldFilter(snap, hist, t) ==
    \/ CheckFakeSignal(hist, t)
    \/ SpreadTooWide(snap)
    \/ DepthTooThin(snap)
    \/ CheckVolumeManipulation(hist)

\* RiskConfig(): the latency bound of the defaults, in milliseconds.
RiskConfig == [enabled |-> TRUE, filter_alerts |-> TRUE, max_ws_latency_ms |-> 500]

\* RiskFilter._check_latency(ticker, ws_receive_time): 0.0 without a receive
\* time (<<>>), else the milliseconds from the ticker's stamp to it.
CheckLatency(tickerMs, recv) == IF recv = <<>> THEN 0 ELSE recv[1] - tickerMs

\* RiskCheckResult.get_filter_reasons(), as the set of flags that add a
\* reason; the latency reason is tested against the literal 500.
GetFilterReasons(result) ==
    {k \in {"fake", "latency", "spread", "depth", "wall", "volume"} :
        CASE k = "fake" -> result.is_fake_signal
          [] k = "latency" -> result.ws_latency_ms > 500
          [] k = "spread" -> result.spread_too_wide
          [] k = "depth" -> result.depth_too_thin
          [] k = "wall" -> result.wall_manipulation
          [] OTHER -> result.volume_manipulation}

\* RiskFilter.check_risk(symbol, ticker, snapshot, ws_receive_time) at clock
\* reading t, with the ticker stamped tickerMs (<<>> when there is none).
CheckRisk(cfg, hist, snap, events, ticker, recv, t) ==
    [ws_latency_ms |-> IF cfg.enabled /\ ticker # <<>>
                       THEN CheckLatency(ticker[1], recv) ELSE 0,
     is_fake_signal |-> cfg.enabled /\ CheckFakeSignal(hist, t),
     spread_too_wide |-> cfg.enabled /\ SpreadTooWide(snap),
     depth_too_thin |-> cfg.enabled /\ DepthTooThin(snap),
     wall_manipulation |-> cfg.enabled /\ CheckWallManipulation(events, t),
     volume_manipulation |-> cfg.enabled /\ CheckVolumeManipulation(hist)]

\* RiskFilter.should_filter_alert(risk_result)
ShouldFilterAlert(cfg, result) ==
    cfg.filter_alerts /\ GetFilterReasons(result) # {}

\* RiskFilter(config): no check made yet.
RiskInit(cfg) ==
    riskCall = [config |-> cfg, calls |-> 0, symbol |-> "", ticker |-> <<>>,
                ws_receive_time |-> <<>>, history |-> <<>>, now |-> 0,
                result |-> <<>>, filtered |-> FALSE]

-----------------------------------------------------------------------------
(***************************************************************************)
(* PriceTracker                                                            *)
(*                                                                         *)
(* A percentage is carried as a fraction [num, den] with den > 0, so that  *)
(* comparisons against thresholds are exact.                               *)
(***************************************************************************)

AlertSymbols == {"AAAUSDT", "BBBUSDT"}

\* deque(maxlen=...) of price_history and of oi_history.
PriceHistoryMaxLen == 1000

OiHistoryMaxLen == 100

TickerData(s, price, volume, ts) ==
    [symbol |-> s, price |-> price, volume |-> volume, timestamp |-> ts]

\* SymbolTracker()
NewTracker ==
    [price_history |-> <<>>, oi_history |-> <<>>, spot_price_history |-> <<>>,
     latest_price |-> 0, latest_volume |-> 0, latest_oi |-> 0,
     latest_spot_price |-> 0, last_update |-> -1, last_spot_update |-> -1]

\* _trackers[symbol] of the defaultdict: the entry, created when missing.
TrackerOf(trs, s) == IF s \in DOMAIN trs THEN trs[s] ELSE NewTracker

SetTracker(trs, s, tr) ==
    [x \in DOMAIN trs \cup {s} |-> IF x = s THEN tr ELSE trs[x]]

\* A tracker that puts the new point in front of the history.
TrackerUpdateMutant(trs, ticker) ==
    LET tr == TrackerOf(trs, ticker.symbol)
        point == [timestamp |-> ticker.timestamp, price |-> ticker.price,
                  volume |-> ticker.volume]
    IN  SetTracker(trs, ticker.symbol,
            [tr EXCEPT !.price_history = LastN(<<point>> \o @, PriceHistoryMaxLen),
                       !.latest_price = ticker.price,
                       !.latest_volume = ticker.volume,
                       !.last_update = ticker.timestamp])

\* PriceTracker.update(ticker); the ticker stream carries no open interest.
TrackerUpdate(trs, ticker) ==
    LET tr == TrackerOf(trs, ticker.symbol)
        point == [timestamp |-> ticker.timestamp, price |-> ticker.price,
                  volume |-> ticker.volume]
    IN  SetTracker(trs, ticker.symbol,
            [tr EXCEPT !.price_history = LastN(Append(@, point), PriceHistoryMaxLen),
                       !.latest_price = ticker.price,
                       !.latest_volume = ticker.volume,
                       !.last_update = ticker.timestamp])

RECURSIVE BatchUpdate(_, _)
\* PriceTracker.batch_update(tickers)
BatchUpdate(trs, tickers) ==
    IF tickers = <<>> THEN trs
    ELSE BatchUpdate(TrackerUpdate(trs, Head(tickers)), Tail(tickers))

\* PriceTracker.update_oi(symbol, oi) at clock reading t
TrackerUpdateOi(trs, s, oi, t) ==
    LET tr == TrackerOf(trs, s)
    IN  SetTracker(trs, s,
            [tr EXCEPT !.latest_oi = oi,
                       !.oi_history = LastN(Append(@, [timestamp |-> t, oi |-> oi]),
                                            OiHistoryMaxLen)])

\* The result of a change query: None, or a percentage num / den.
NoChange == [some |-> FALSE, num |-> 0, den |-> 1]

Change(num, den) == [some |-> TRUE, num |-> num, den |-> den]

\* A tracker that measures the change since the previous price point.
GetPriceChangeMutant(trs, s, window, t) ==
    LET h == trs[s].price_history
    IN  IF s \notin DOMAIN trs THEN NoChange
        ELSE IF Len(h) < 2 THEN NoChange
        ELSE IF h[Len(h) - 1].price = 0 THEN NoChange
        ELSE Change((trs[s].latest_price - h[Len(h) - 1].price) * 100,
                    h[Len(h) - 1].price)

\* PriceTracker.get_price_change(symbol) at clock reading t
GetPriceChange(trs, s, window, t) ==
    LET tr == trs[s]
        InWindow(p) == p.timestamp >= t - window
        w == SelectSeq(tr.price_history, InWindow)
    IN  IF s \notin DOMAIN trs THEN NoChange
        ELSE IF Len(tr.price_history) < 2 THEN NoChange
        ELSE IF Len(w) < 2 THEN NoChange
        ELSE IF w[1].price = 0 THEN NoChange
        ELSE Change((tr.latest_price - w[1].price) * 100, w[1].price)

\* PriceTracker.get_oi_change(symbol) at clock reading t
GetOiChange(trs, s, window, t) ==
    LET tr == trs[s]
        InWindow(p) == p.timestamp >= t - window
        w == SelectSeq(tr.oi_history, InWindow)
    IN  IF s \notin DOMAIN trs THEN NoChange
        ELSE IF Len(tr.oi_history) < 2 THEN NoChange
        ELSE IF Len(w) < 2 THEN NoChange
        ELSE IF w[1].oi = 0 THEN NoChange
        ELSE Change((tr.latest_oi - w[1].oi) * 100, w[1].oi)

\* PriceTracker.get_oi_value(symbol)
GetOiValue(trs, s) ==
    IF s \notin DOMAIN trs THEN 0
    ELSE IF trs[s].latest_price > 0 /\ trs[s].latest_oi > 0
         THEN trs[s].latest_price * trs[s].latest_oi
         ELSE 0

\* PriceTracker.get_latest(symbol) is not None
HasLatest(trs, s) == s \in DOMAIN trs /\ trs[s].last_update # -1

\* tracker._trackers.get(symbol).price_history, empty when not tracked
PriceHistoryOf(trs, s) == IF s \in DOMAIN trs THEN trs[s].price_history ELSE <<>>

-----------------------------------------------------------------------------
(***************************************************************************)
(* OrderBookMonitor                                                        *)
(***************************************************************************)

BookSymbols == {"AAAUSDT"}

BookEventKeys ==
    {"wall_bid", "wall_ask", "imbalance_bid", "imbalance_ask",
     "sweep_bid", "sweep_ask"}

\* datetime.min, the default of both cooldown maps: long before any reading.
DatetimeMin == -1000000

\* How many process_snapshot calls a behaviour makes.
MaxSnapshots == 3

\* The last clock reading of the order-book behaviours, counted in seconds
\* after the cooldown has run out.
MaxBookSlack == 1

BookClockReadings == {0} \cup {BookCooldownSeconds + d : d \in 0..MaxBookSlack}

\* WallState as far as the monitor reads it.
WallState(price, qty, side) ==
    [price |-> price, quantity |-> qty, value |-> price * qty, side |-> side]

\* OrderBookMonitor._is_cooled_down
BookIsCooledDown(cd, s, key, t) == t - cd[<<s, key>>] > BookCooldownSeconds

\* The walls _detect_walls finds on one side, in snapshot order.
SideWalls(snap, side) ==
    LET all    == IF side = "bid" THEN snap.bids ELSE snap.asks
        levels == FirstN(all, WallScanLevels)
        mid2   == BestBid(snap) + BestAsk(snap)
        total  == SumValues(levels)
        TooFar(l) ==
            IF side = "bid"
            THEN (mid2 - 2 * l[1]) * 100 > WallDistanceMax * mid2
            ELSE (2 * l[1] - mid2) * 100 > WallDistanceMax * mid2
        IsWall(l) ==
            /\ ~TooFar(l)
            /\ l[1] * l[2] >= WallValueThreshold
            /\ total > 0
            /\ l[1] * l[2] * Len(levels) >= total * WallRatioThreshold
        found  == SelectSeq(levels, IsWall)
    IN  [i \in 1..Len(found) |-> WallState(found[i][1], found[i][2], side)]

\* current_walls: a dict keyed by price, bids inserted first, so an ask wall
\* replaces a bid wall at the same price.
CurrentWalls(snap) ==
    LET asks == SideWalls(snap, "ask")
        Kept(w) == \A i \in 1..Len(asks) : asks[i].price # w.price
    IN  SelectSeq(SideWalls(snap, "bid"), Kept) \o asks

\* _detect_walls returns before touching anything when a side is empty.
WallsSkipped(snap) == BestBid(snap) = 0 \/ BestAsk(snap) = 0

OrderBookEvent(type, side, price, value) ==
    [event_type |-> type, side |-> side, price |-> price, value |-> value]

\* The walls that raise an event in one detector pass, given the walls
\* `hits` the detector's test accepts: a wall raises one if its side's
\* cooldown has run out; raising it records the cooldown, which silences the
\* later walls of that side in the same pass.
FiredWalls(hits, cd, s, prefix, t) ==
    LET First(side) ==
            LET Mine(w) == w.side = side
                mine == SelectSeq(hits, Mine)
            IN  IF mine # <<>> /\ BookIsCooledDown(cd, s, prefix \o side, t)
                THEN <<Head(mine)>>
                ELSE <<>>
        Fires(w) == <<w>> = First(w.side)
    IN  SelectSeq(hits, Fires)

\* _record_cooldown for every event of a pass.
RecordCooldowns(cd, s, events, prefix, t) ==
    [k \in DOMAIN cd |->
        IF \E i \in 1..Len(events) : k = <<s, prefix \o events[i].side>>
        THEN t ELSE cd[k]]

\* The quantity the snapshot holds at a tracked wall's price, 0 if none.
CurrentQty(snap, wall) ==
    LET all == IF wall.side = "bid" THEN snap.bids ELSE snap.asks
        At(l) == l[1] = wall.price
        hit == SelectSeq(all, At)
    IN  IF hit = <<>> THEN 0 ELSE hit[Len(hit)][2]

\* _detect_sweep's test of one tracked wall: less than 20% of the quantity
\* is left and the value that went is at least sweep_value_threshold.
Swept(snap, wall) ==
    /\ CurrentQty(snap, wall) * 5 < wall.quantity
    /\ wall.value - wall.price * CurrentQty(snap, wall) >= SweepValueThreshold

\* _detect_imbalance: the side of the imbalance event, "" when the ratio is
\* under the threshold.
ImbalanceSide(snap) ==
    LET bid == BidDepth(snap, ImbalanceDepthLevels)
        ask == AskDepth(snap, ImbalanceDepthLevels)
    IN  IF bid + ask = 0 THEN ""
        ELSE IF Abs(bid - ask) * 10 < ImbalanceThresholdTenths * (bid + ask) THEN ""
        ELSE IF bid > ask THEN "bid" ELSE "ask"

\* create_orderbook_alert, and what the RiskFilter would decide for the
\* alert's symbol at the moment it is handed to the notifier.
OrderBookAlert(s, event, snap, hist, t) ==
    [symbol |-> s,
     alert_type |-> CASE event.event_type = "imbalance" -> "orderbook_imbalance"
                      [] event.event_type = "sweep" -> "orderbook_sweep"
                      [] OTHER -> "orderbook_wall",
     timestamp |-> t,
     risk_checked |-> FALSE,
     risk_filtered |-> RiskShouldFilter(snap, hist, t)]

BookInit ==
    /\ snapshots = [s \in BookSymbols |-> NoSnapshot]
    /\ trackedWalls = [s \in BookSymbols |-> <<>>]
    /\ obCooldowns = [k \in BookSymbols \X BookEventKeys |-> DatetimeMin]
    /\ obEvents = <<>>
    /\ obProcessed = 0
    /\ wallLog = [s \in BookSymbols |-> <<>>]
    /\ wallEvents = [s \in BookSymbols |-> <<>>]

\* What a detector hands back: its events, and the monitor's cooldown map
\* and tracked walls as it leaves them.
Detected(events, cd, tracked) ==
    [events |-> events, cooldowns |-> cd, tracked |-> tracked]

\* _detect_walls(snapshot, prev_snapshot)
DetectWalls(s, snap, cd, tracked, t) ==
    LET IsNew(w) == \A i \in 1..Len(tracked) : tracked[i].price # w.price
        fired   == FiredWalls(SelectSeq(CurrentWalls(snap), IsNew), cd, s, "wall_", t)
        events  == [i \in 1..Len(fired) |->
                       OrderBookEvent("wall_detected", fired[i].side,
                                      fired[i].price, fired[i].value)]
    IN  IF WallsSkipped(snap)
        THEN Detected(<<>>, cd, tracked)
        ELSE Detected(events, RecordCooldowns(cd, s, events, "wall_", t),
                      CurrentWalls(snap))

\* _detect_imbalance(snapshot, prev_snapshot)
DetectImbalance(s, snap, cd, tracked, t) ==
    LET side   == ImbalanceSide(snap)
        events == <<OrderBookEvent("imbalance", side, 0, 0)>>
    IN  IF side # "" /\ BookIsCooledDown(cd, s, "imbalance_" \o side, t)
        THEN Detected(events, RecordCooldowns(cd, s, events, "imbalance_", t), tracked)
        ELSE Detected(<<>>, cd, tracked)

\* _detect_sweep(snapshot, prev_snapshot), over the walls tracked by then
DetectSweep(s, snap, cd, tracked, t) ==
    LET IsSwept(w) == Swept(snap, w)
        fired  == FiredWalls(SelectSeq(tracked, IsSwept), cd, s, "sweep_", t)
        events == [i \in 1..Len(fired) |->
                      OrderBookEvent("sweep", fired[i].side, fired[i].price,
                          fired[i].value - fired[i].price * CurrentQty(snap, fired[i]))]
    IN  Detected(events, RecordCooldowns(cd, s, events, "sweep_", t), tracked)

\* What one _detect_walls pass shows of the walls of a symbol: a wall of
\* the new tracked set at a price the old one did not hold has appeared, a
\* wall of the old set at a price the new one does not hold has disappeared.
\* The monitor itself keeps no record of either.
WallChanges(old, new, t) ==
    LET Appeared(w) == \A i \in 1..Len(old) : old[i].price # w.price
        Gone(w) == \A i \in 1..Len(new) : new[i].price # w.price
        appeared == SelectSeq(new, Appeared)
        gone == SelectSeq(old, Gone)
    IN  [i \in 1..Len(appeared) |-> <<t, "appear">>]
        \o [i \in 1..Len(gone) |-> <<t, "disappear">>]

\* OrderBookMonitor.process_snapshot(snapshot) for symbol s, with every
\* detector enabled, followed by MonitorApp._on_orderbook_event for each
\* event it returns.
ProcessSnapshot(s, snap) ==
    /\ \E walls \in {DetectWalls(s, snap, obCooldowns, trackedWalls[s], clock)} :
       \E imb \in {DetectImbalance(s, snap, walls.cooldowns, walls.tracked, clock)} :
       \E sweep \in {IF snapshots[s].present
                      THEN DetectSweep(s, snap, imb.cooldowns, imb.tracked, clock)
                      ELSE Detected(<<>>, imb.cooldowns, imb.tracked)} :
       \E events \in {walls.events \o imb.events \o sweep.events} :
          /\ trackedWalls' = [trackedWalls EXCEPT ![s] = sweep.tracked]
          /\ wallLog' = [wallLog EXCEPT
                            ![s] = @ \o WallChanges(trackedWalls[s], sweep.tracked, clock)]
          /\ obCooldowns' = sweep.cooldowns
          /\ snapshots' = [snapshots EXCEPT ![s] = snap]
          /\ obEvents' = events
          /\ notified' = notified \o
                 [i \in 1..Len(events) |->
                     OrderBookAlert(s, events[i], snap,
                                    PriceHistoryOf(trackers, s), clock)]
    /\ obProcessed' = obProcessed + 1
    /\ UNCHANGED <<clock, delivered, wallEvents, bookRest>>

\* The wall clock advances to a later reading.
BookTick ==
    /\ \E t \in BookClockReadings : t > clock /\ clock' = t
    /\ UNCHANGED <<notified, delivered, bookVars, bookRest>>

\* The order-book sides the behaviours feed: bids from 1000 down, asks from
\* 1001 up, with a quantity q1 at the best price that is a wall at 1000, a
\* remainder under 20% of it at 150, and an ordinary level at 10.
BookQuantities == {10, 150, 1000}

BidSides ==
    {<<>>, <<<<999, 10>>, <<998, 10>>, <<997, 10>>>>}
    \cup {<<<<1000, q>>, <<999, 10>>, <<998, 10>>, <<997, 10>>>> : q \in BookQuantities}

AskSides ==
    {<<>>, <<<<1011, 10>>, <<1012, 10>>, <<1013, 10>>, <<1014, 10>>>>}
    \cup {<<<<1001, q>>, <<1002, 10>>, <<1003, 10>>, <<1004, 10>>>> : q \in {10, 1000}}

BookNext ==
    \/ BookTick
    \/ \E s \in BookSymbols, b \in BidSides, a \in AskSides :
          obProcessed < MaxSnapshots /\ ProcessSnapshot(s, OrderBookSnapshot(b, a))

-----------------------------------------------------------------------------
(***************************************************************************)
(* AlertEngine                                                             *)
(***************************************************************************)

AlertKinds == {"price_change", "oi_change"}

VolumeTierConfig(minQuoteVolume, priceThreshold, oiThreshold, label) ==
    [min_quote_volume |-> minQuoteVolume, price_threshold |-> priceThreshold,
     oi_threshold |-> oiThreshold, label |-> label]

\* _get_tier found no tier.
NoTier == VolumeTierConfig(-1, 0, 0, "")

RECURSIVE SortTiers(_)
\* sorted(settings.volume_tiers, key=min_quote_volume, reverse=True): a
\* stable sort, the larger lower bound first.
SortTiers(tiers) ==
    IF tiers = <<>> THEN <<>>
    ELSE LET rest == SortTiers(Tail(tiers))
             Before(x) == x.min_quote_volume > Head(tiers).min_quote_volume
             NotBefore(x) == ~Before(x)
         IN  SelectSeq(rest, Before) \o <<Head(tiers)>> \o SelectSeq(rest, NotBefore)

\* An engine whose tier test compares the wrong way round.
GetTierFlippedMutant(tiers, oiValue) ==
    LET Fits(x) == oiValue <= x.min_quote_volume
        fit == SelectSeq(SortTiers(tiers), Fits)
    IN  IF fit = <<>> THEN NoTier ELSE Head(fit)

\* An engine that reads the tiers in the configured order.
GetTierMutant(tiers, oiValue) ==
    LET Fits(x) == oiValue >= x.min_quote_volume
        fit == SelectSeq(tiers, Fits)
    IN  IF fit = <<>> THEN NoTier ELSE Head(fit)

\* AlertEngine._get_tier(oi_value)
GetTier(tiers, oiValue) ==
    LET Fits(x) == oiValue >= x.min_quote_volume
        fit == SelectSeq(SortTiers(tiers), Fits)
    IN  IF fit = <<>> THEN NoTier ELSE Head(fit)

\* An engine without cooldown.
IsCooledDownMutant(cd, s, kind, cooldown, t) == TRUE

\* AlertEngine._is_cooled_down(symbol, alert_type) at clock reading t
IsCooledDown(cd, s, kind, cooldown, t) == t - cd[<<s, kind>>] > cooldown

\* An engine that ignores the whitelist and the blacklist.
ShouldFilterMutant(cfg, s) == FALSE

\* AlertEngine._should_filter(symbol)
ShouldFilter(cfg, s) ==
    CASE cfg.filter_mode = "whitelist" -> s \notin cfg.whitelist
      [] cfg.filter_mode = "blacklist" -> s \in cfg.blacklist
      [] OTHER -> FALSE

AlertEvent(s, kind, ts, change, label) ==
    [symbol |-> s, alert_type |-> kind, timestamp |-> ts,
     change_num |-> change.num, change_den |-> change.den, tier_label |-> label]

\* The tail of a detector that fires: AlertEvent(...) stamped with the
\* clock reading eng.t, then _record_alert, which reads the clock again
\* (eng.drift seconds later).
Fire(eng, s, kind, change, tier) ==
    [eng EXCEPT !.events = Append(@, AlertEvent(s, kind, eng.t, change, tier.label)),
                !.cooldowns = [@ EXCEPT ![<<s, kind>>] = eng.t + eng.drift],
                !.t = eng.t + eng.drift,
                !.drift = 0]

\* AlertEngine.check_price_change(symbol)
CheckPriceChange(eng, trs, cfg, s) ==
    LET change == GetPriceChange(trs, s, cfg.price_window, eng.t)
        tier   == GetTier(cfg.tiers, GetOiValue(trs, s))
    IN  IF ~cfg.price_enabled THEN eng
        ELSE IF ShouldFilter(cfg, s) THEN eng
        ELSE IF ~IsCooledDown(eng.cooldowns, s, "price_change", cfg.cooldown, eng.t)
             THEN eng
        ELSE IF ~change.some THEN eng
        ELSE IF tier = NoTier THEN eng
        ELSE IF Abs(change.num) < tier.price_threshold * change.den THEN eng
        ELSE IF ~HasLatest(trs, s) THEN eng
        ELSE Fire(eng, s, "price_change", change, tier)

\* AlertEngine.check_oi_change(symbol)
CheckOiChange(eng, trs, cfg, s) ==
    LET change == GetOiChange(trs, s, cfg.oi_window, eng.t)
        tier   == GetTier(cfg.tiers, GetOiValue(trs, s))
    IN  IF ~cfg.oi_enabled THEN eng
        ELSE IF ShouldFilter(cfg, s) THEN eng
        ELSE IF ~IsCooledDown(eng.cooldowns, s, "oi_change", cfg.cooldown, eng.t)
             THEN eng
        ELSE IF ~change.some THEN eng
        ELSE IF tier = NoTier THEN eng
        ELSE IF Abs(change.num) < tier.oi_threshold * change.den THEN eng
        ELSE IF ~HasLatest(trs, s) THEN eng
        ELSE Fire(eng, s, "oi_change", change, tier)

\* _snapshots.get(symbol) of the order-book monitor
SnapshotOf(snaps, s) == IF s \in DOMAIN snaps THEN snaps[s] ELSE NoSnapshot

\* AlertEngine._check_risk_filter(symbol, alert_type): TRUE = send.
CheckRiskFilter(trs, snaps, cfg, s, t) ==
    IF ~cfg.risk_filter THEN TRUE
    ELSE ~RiskShouldFilter(SnapshotOf(snaps, s), PriceHistoryOf(trs, s), t)

\* The alert as the notifier receives it from MonitorApp._on_alert.
\* risk_checked and risk_filtered record whether the RiskFilter was
\* consulted for it and what it decides for the symbol at that moment.
Notified(event, checked, filtered) ==
    [symbol |-> event.symbol, alert_type |-> event.alert_type,
     timestamp |-> event.timestamp, risk_checked |-> checked,
     risk_filtered |-> filtered]

\* The callback loop at the end of check_all over the events of this call.
NotifyEvents(events, sink, trs, snaps, cfg, s, t) ==
    LET Send(e) == CheckRiskFilter(trs, snaps, cfg, e.symbol, t)
        sent == SelectSeq(events, Send)
    IN  sink \o [i \in 1..Len(sent) |->
                    Notified(sent[i], cfg.risk_filter,
                             RiskShouldFilter(SnapshotOf(snaps, s),
                                              PriceHistoryOf(trs, s), t))]

\* AlertEngine.check_all(symbol).  The volume-spike, spot-futures-spread and
\* price-reversal detectors are switched off in the settings modelled here
\* and return None at their first test.
CheckAll(eng, trs, snaps, cfg, s) ==
    LET afterPrice == CheckPriceChange(eng, trs, cfg, s)
        afterOi    == CheckOiChange(afterPrice, trs, cfg, s)
        events     == SubSeq(afterOi.events, Len(eng.events) + 1, Len(afterOi.events))
    IN  [afterOi EXCEPT
            !.notified = NotifyEvents(events, @, trs, snaps, cfg, s, afterOi.t)]

RECURSIVE CheckTickers(_, _, _, _, _)
\* The loop of process_tickers: check_all(ticker.symbol) for each ticker.
CheckTickers(eng, trs, snaps, cfg, tickers) ==
    IF tickers = <<>> THEN eng
    ELSE CheckTickers(CheckAll(eng, trs, snaps, cfg, Head(tickers).symbol),
                      trs, snaps, cfg, Tail(tickers))

\* How many process_tickers calls and OI polls a behaviour makes, and its
\* last clock reading.
MaxBatches == 3

MaxOiPolls == 2

MaxAlertTime == 2

\* Settings with short windows and a short cooldown, two tiers.
SmallSettings ==
    [price_enabled |-> TRUE, oi_enabled |-> TRUE,
     price_window |-> 2, oi_window |-> 2, cooldown |-> 1,
     filter_mode |-> "none", whitelist |-> {}, blacklist |-> {},
     tiers |-> <<VolumeTierConfig(0, 2, 5, "small"),
                 VolumeTierConfig(1000, 1, 3, "large")>>,
     risk_filter |-> TRUE]

\* The state of AlertEngine and PriceTracker after construction.
AlertInit(s) ==
    /\ settings = s
    /\ trackers = <<>>
    /\ cooldowns = [k \in AlertSymbols \X AlertKinds |-> DatetimeMin]
    /\ emitted = <<>>
    /\ batches = 0
    /\ oiPolls = 0
    /\ alertRows = <<>>
    /\ lastCleanup = -1

\* MonitorApp._handle_tickers -> AlertEngine.process_tickers(tickers):
\* batch_update, then check_all per ticker, with no suspension point.
\* drift is what the clock advances between an event's construction and the
\* _record_alert that follows it.  For an event the risk filter rejects,
\* check_all only writes a log line: no call on this path reaches
\* MLDataStore.save_alert, so the alerts table keeps its rows.
ProcessTickers(tickers, drift) ==
    /\ \E trs \in {BatchUpdate(trackers, tickers)} :
       \E eng \in {CheckTickers([t |-> clock, drift |-> drift,
                                 cooldowns |-> cooldowns, events |-> <<>>,
                                 notified |-> notified],
                                trs, snapshots, settings, tickers)} :
          /\ trackers' = trs
          /\ cooldowns' = eng.cooldowns
          /\ emitted' = emitted \o eng.events
          /\ notified' = eng.notified
          /\ clock' = eng.t
    /\ batches' = batches + 1
    /\ UNCHANGED <<delivered, settings, oiPolls, alertRows, lastCleanup,
                   alertRest>>

\* The OI polling task, which polls the symbols the tracker already holds:
\* tracker.update_oi(symbol, oi)
UpdateOi(s, oi) ==
    /\ oiPolls < MaxOiPolls
    /\ s \in DOMAIN trackers
    /\ trackers' = TrackerUpdateOi(trackers, s, oi, clock)
    /\ oiPolls' = oiPolls + 1
    /\ UNCHANGED <<clock, notified, delivered, settings, cooldowns, emitted, batches,
                   alertRows, lastCleanup, alertRest>>

\* The wall clock advances by a second.
AlertTick ==
    /\ clock < MaxAlertTime
    /\ clock' = clock + 1
    /\ UNCHANGED <<notified, delivered, alertVars, alertRest>>

\* The ticker batches the behaviours feed, stamped with the clock reading
\* at which they are received.
TickerPrices == {100, 102}

TickerBatches(t) ==
    {<<TickerData("AAAUSDT", p, 10, t), TickerData("BBBUSDT", p, 10, t)>> :
        p \in TickerPrices}

\* The open interest the k-th poll reads: it grows by a tenth per poll.
OiReading(k) == 10 + k

\* The order book stored while the alert path runs: a thin one.
AlertBooks == {OrderBookSnapshot(<<<<1000, 10>>>>, <<<<1001, 10>>>>)}

AlertNext ==
    \/ AlertTick
    \/ \E b \in TickerBatches(clock), d \in {0, 1} :
          batches < MaxBatches /\ ProcessTickers(b, d)
    \/ UpdateOi("AAAUSDT", OiReading(oiPolls))
    \/ \E s \in BookSymbols, snap \in AlertBooks :
          ~snapshots[s].present /\ ProcessSnapshot(s, snap)

-----------------------------------------------------------------------------
(***************************************************************************)
(* The alert path with the notifier's consumer task.  MonitorApp._on_alert *)
(* hands every alert to AlertNotifier.notify, which puts it on _queue, an  *)
(* asyncio.Queue() built without maxsize: put never waits and nothing is   *)
(* ever dropped.  The queue is what was handed over and not yet taken.     *)
(***************************************************************************)

\* AlertNotifier._queue
NotifierQueue == SubSeq(notified, delivered + 1, Len(notified))

\* One round of AlertNotifier._process_queue: _queue.get() and the send.
ProcessQueue ==
    /\ delivered < Len(notified)
    /\ delivered' = delivered + 1
    /\ UNCHANGED <<clock, notified, alertVars, alertRest>>

NotifyNext == AlertNext \/ ProcessQueue

-----------------------------------------------------------------------------
(***************************************************************************)
(* The tracker over a long run: AAAUSDT has been tracked for 1000 seconds  *)
(* and its three histories are full, BBBUSDT has not been seen yet; the    *)
(* ticker stream, the OI poll, the spot poll and the cleanup task then run *)
(* in any order.                                                           *)
(***************************************************************************)

\* SymbolTracker.spot_price_history: deque(maxlen=100)
SpotHistoryMaxLen == 100

\* cleanup_old_data(max_age=3600) in MonitorApp._cleanup_task
CleanupMaxAge == 3600

\* The tracker of a symbol after a ticker a second from second 1 to second
\* 1000 and an OI poll and a spot poll every 10 seconds.
FullTracker ==
    [price_history |-> [i \in 1..PriceHistoryMaxLen |->
                          [timestamp |-> i, price |-> 100, volume |-> 10]],
     oi_history |-> [i \in 1..OiHistoryMaxLen |->
                       [timestamp |-> 10 * i, oi |-> 10]],
     spot_price_history |-> [i \in 1..SpotHistoryMaxLen |->
                               [timestamp |-> 10 * i, price |-> 100]],
     latest_price |-> 100, latest_volume |-> 10, latest_oi |-> 10,
     latest_spot_price |-> 100, last_update |-> PriceHistoryMaxLen,
     last_spot_update |-> 10 * SpotHistoryMaxLen]

\* The clock readings of the long run: its start, a reading at which half
\* of the old price points have reached max_age, and one at which all of
\* them have.
TrackClockReadings ==
    {PriceHistoryMaxLen, CleanupMaxAge + 500, 2 * CleanupMaxAge}

\* The wall clock advances to a later reading.
TrackTick ==
    /\ \E t \in TrackClockReadings : t > clock /\ clock' = t
    /\ UNCHANGED <<notified, delivered, alertVars, alertRest>>

\* MonitorApp._poll_spot_prices -> batch_update_spot_prices(spot_prices) ->
\* update_spot_price(symbol, price, timestamp) for each symbol of the
\* response, all with one datetime.now().
UpdateSpot(symbols, price) ==
    /\ \A s \in DOMAIN trackers : trackers[s].last_spot_update < clock
    /\ trackers' =
          [s \in DOMAIN trackers \cup symbols |->
              IF s \notin symbols THEN trackers[s]
              ELSE [TrackerOf(trackers, s) EXCEPT
                       !.latest_spot_price = price,
                       !.last_spot_update = clock,
                       !.spot_price_history =
                           LastN(Append(@, [timestamp |-> clock, price |-> price]),
                                 SpotHistoryMaxLen)]]
    /\ UNCHANGED <<clock, notified, delivered, settings, cooldowns, emitted, batches,
                   oiPolls, alertRows, lastCleanup, alertRest>>

\* while history: if history[0].timestamp < cutoff: popleft() else: break
PopOld(history, cutoff) ==
    LET stop == {i \in 1..Len(history) : history[i].timestamp >= cutoff}
    IN  IF stop = {} THEN <<>>
        ELSE SubSeq(history, CHOOSE i \in stop : \A j \in stop : i <= j,
                    Len(history))

\* MonitorApp._cleanup_task -> PriceTracker.cleanup_old_data(max_age=3600):
\* the price and OI histories of every tracker lose their leading points
\* older than the cutoff; the trackers themselves stay.
CleanupTask ==
    /\ lastCleanup < clock
    /\ trackers' =
          [s \in DOMAIN trackers |->
              [trackers[s] EXCEPT
                  !.price_history = PopOld(@, clock - CleanupMaxAge),
                  !.oi_history = PopOld(@, clock - CleanupMaxAge)]]
    /\ lastCleanup' = clock
    /\ UNCHANGED <<clock, notified, delivered, settings, cooldowns, emitted, batches,
                   oiPolls, alertRows, alertRest>>

\* How many ticker frames the long run receives.
MaxTrackUpdates == 2

TrackerNext ==
    \/ TrackTick
    \/ \E s \in AlertSymbols :
          batches < MaxTrackUpdates
          /\ ProcessTickers(<<TickerData(s, 102, 10, clock)>>, 0)
    \/ UpdateOi("AAAUSDT", OiReading(oiPolls))
    \/ \E symbols \in {{"AAAUSDT"}, AlertSymbols} : UpdateSpot(symbols, 101)
    \/ CleanupTask

-----------------------------------------------------------------------------
(***************************************************************************)
(* The price ramp: one symbol, one ticker a second, the price rising by    *)
(* 0.05 a second from 100 (3% a minute), under the default windows and a   *)
(* single tier.  Prices are in units of 0.05, so 100 is 2000.              *)
(***************************************************************************)

\* The last second of the ramp.
MaxRampTime == 345

\* settings.alerts defaults: price_change.time_window, open_interest
\* time_window and cooldown.
DefaultTimeWindow == 60

DefaultOiWindow == 300

DefaultCooldown == 300

RampSettings ==
    [price_enabled |-> TRUE, oi_enabled |-> TRUE,
     price_window |-> DefaultTimeWindow, oi_window |-> DefaultOiWindow,
     cooldown |-> DefaultCooldown,
     filter_mode |-> "none", whitelist |-> {}, blacklist |-> {},
     tiers |-> <<VolumeTierConfig(0, 2, 5, "small")>>,
     risk_filter |-> TRUE]

RampPrice(t) == 2000 + t

\* The ticker of second `clock` arrives and is processed.
RampTicker ==
    /\ batches = clock
    /\ ProcessTickers(<<TickerData("AAAUSDT", RampPrice(clock), 10, clock)>>, 0)

\* The next second begins.
RampTick ==
    /\ batches = clock + 1
    /\ clock < MaxRampTime
    /\ clock' = clock + 1
    /\ UNCHANGED <<notified, delivered, alertVars, alertRest>>

RampNext == RampTicker \/ RampTick

-----------------------------------------------------------------------------
(***************************************************************************)
(* Paper trading: VirtualAccount, PositionManager, StopLossManager and     *)
(* RealtimeSimEngine (src/src/ml/trading), driven by MonitorApp.           *)
(*                                                                         *)
(* Fixed-point units: market prices and money are in cents; quantities in  *)
(* 1/QtyScale coin; take-profit and stop-loss price levels in 1/LevelScale *)
(* cent, so that entry * (1 - 1.5%) is exact; percentages of the stop-loss *)
(* configuration in tenths of a percent (1/LevelScale of the whole).  A    *)
(* float product or quotient that yields money or a quantity is rounded    *)
(* down to its unit; every comparison of prices and percentages is exact.  *)
(***************************************************************************)

TradeSymbols == {"AAAUSDT", "BBBUSDT"}

QtyScale == 100

LevelScale == 1000

FeeScale == 10000

\* AccountConfig: initial_balance in cents, taker_fee in 1/FeeScale,
\* position_risk_pct and max_margin_ratio in percent.
AccountConfig ==
    [initial_balance |-> 10000, leverage |-> 15, taker_fee |-> 5,
     max_positions |-> 2, position_risk_pct |-> 2, max_margin_ratio |-> 80]

\* StopLossConfig with its default values, percentages in tenths of a percent.
StopLossConfig ==
    [method |-> "multiple", fixed_stop_pct |-> 15, take_profit_pct |-> 30,
     trailing_distance |-> 10, trailing_activation |-> 10,
     max_hold_seconds |-> 900]

RealtimeConfig == [save_interval |-> 60, max_positions_per_symbol |-> 1]

\* The default of open_position's max_hold_seconds parameter; neither engine
\* passes another value, nor a trailing_distance.
DefaultMaxHoldSeconds == 900

\* Position.  trailing_stop_distance is always None and is left out.
\* unrealized_pnl_pct and unrealized_pnl are written only by update_pnl,
\* together with current_price, and are functions of it: see Gain and
\* UnrealizedPnl.  A level of 0 stands for None (the code tests truthiness).
Position(id, symbol, side, quantity, price, t, margin, take_profit, stop_loss) ==
    [position_id |-> id, symbol |-> symbol, side |-> side,
     quantity |-> quantity, entry_price |-> price, entry_time |-> t,
     leverage |-> AccountConfig.leverage, margin |-> margin,
     take_profit_price |-> take_profit, stop_loss_price |-> stop_loss,
     max_hold_seconds |-> DefaultMaxHoldSeconds,
     current_price |-> price, highest_price |-> price, lowest_price |-> price]

\* The price move in the position's favour: unrealized_pnl_pct is
\* Gain * 100 / entry_price.
Gain(p) ==
    IF p.side = "long" THEN p.current_price - p.entry_price
    ELSE p.entry_price - p.current_price

\* unrealized_pnl = margin * unrealized_pnl_pct / 100 * leverage.
UnrealizedPnl(p) == (p.margin * p.leverage * Gain(p)) \div p.entry_price

\* Position.update_pnl.
UpdatePnl(p, price) ==
    [p EXCEPT !.current_price = price,
              !.highest_price = IF price > @ THEN price ELSE @,
              !.lowest_price = IF price < @ \/ @ = 0 THEN price ELSE @]

RECURSIVE SumMargin(_)
SumMargin(ps) == IF ps = <<>> THEN 0 ELSE ps[1].margin + SumMargin(Tail(ps))

RECURSIVE SumUnrealized(_)
SumUnrealized(ps) ==
    IF ps = <<>> THEN 0 ELSE UnrealizedPnl(ps[1]) + SumUnrealized(Tail(ps))

\* VirtualAccount after construction.  positions keeps the insertion order
\* of the dict.
NewAccount ==
    [balance |-> AccountConfig.initial_balance, positions |-> <<>>,
     trades |-> <<>>, total_trades |-> 0, win_trades |-> 0, total_pnl |-> 0,
     max_equity |-> AccountConfig.initial_balance,
     min_equity |-> AccountConfig.initial_balance, max_drawdown |-> 0]

GetEquityMutant(acct) == acct.balance

GetEquity(acct) == acct.balance + SumUnrealized(acct.positions)

GetMarginUsed(acct) == SumMargin(acct.positions)

GetAvailableMargin(acct) == acct.balance - GetMarginUsed(acct)

CanOpenPositionMutant(acct, margin_required) ==
    IF GetAvailableMargin(acct) < margin_required THEN "insufficient_margin"
    ELSE IF (GetMarginUsed(acct) + margin_required) * 100
                > AccountConfig.max_margin_ratio * acct.balance
         THEN "margin_ratio"
    ELSE ""

\* can_open_position: "" when the position may be opened, else the reason.
\* The ratio is only computed when 0 < margin_required <= available, hence
\* with a positive balance.
CanOpenPosition(acct, margin_required) ==
    IF Len(acct.positions) >= AccountConfig.max_positions THEN "max_positions"
    ELSE IF GetAvailableMargin(acct) < margin_required THEN "insufficient_margin"
    ELSE IF (GetMarginUsed(acct) + margin_required) * 100
                > AccountConfig.max_margin_ratio * acct.balance
         THEN "margin_ratio"
    ELSE ""

RECURSIVE GCD(_, _)
GCD(a, b) == IF b = 0 THEN a ELSE GCD(b, a % b)

\* stop_loss_pct / 100 of open_position as a fraction in lowest terms: the
\* distance of the stop level from the price, or 1.5% when there is no stop.
StopLossPct(price, stop_loss) ==
    IF stop_loss # 0 /\ price > 0
    THEN LET dist == Abs(price * LevelScale - stop_loss)
             g == GCD(dist, price * LevelScale)
         IN [num |-> dist \div g, den |-> (price * LevelScale) \div g]
    ELSE [num |-> 3, den |-> 200]

\* calculate_position_size (pct.num > 0 for every stop the strategy sets).
CalculatePositionSize(acct, price, pct) ==
    LET risk_amount == (GetEquity(acct) * AccountConfig.position_risk_pct) \div 100
        position_value == (risk_amount * pct.den * AccountConfig.leverage) \div pct.num
        margin_required == position_value \div AccountConfig.leverage
        max_margin == GetAvailableMargin(acct) \div 2
        capped == IF margin_required < max_margin THEN margin_required ELSE max_margin
    IN (capped * AccountConfig.leverage * QtyScale) \div price

CalculateMargin(quantity, price) ==
    (quantity * price) \div (QtyScale * AccountConfig.leverage)

CalculateCommission(quantity, price) ==
    (((quantity * price) \div QtyScale) * AccountConfig.taker_fee) \div FeeScale

\* What open_position hands back when it returns None: nothing was touched.
RejectedMutant(acct, index, why) ==
    [account |-> [acct EXCEPT !.balance = @ - 1], index |-> index, result |-> why]

Rejected(acct, index, why) ==
    [account |-> acct, index |-> index, result |-> why]

\* PositionManager.open_position; quantity is <<>> for None.  When the
\* position is accepted the commission is charged and the position is added
\* to the account and the index, and then the log line of lines 141-147
\* raises (its format specification is invalid for a float and for None):
\* the caller gets an exception, never the position.
OpenPosition(acct, index, id, symbol, side, price, signal, quantity, t) ==
    LET take_profit == IF signal.present THEN signal.take_profit ELSE 0
        stop_loss == IF signal.present THEN signal.stop_loss ELSE 0
        qty == IF quantity = <<>>
               THEN CalculatePositionSize(acct, price, StopLossPct(price, stop_loss))
               ELSE quantity[1]
        margin == CalculateMargin(qty, price)
        why == CanOpenPosition(acct, margin)
    IN IF qty <= 0 THEN Rejected(acct, index, "size")
       ELSE IF why # "" THEN Rejected(acct, index, why)
       ELSE [account |->
                [acct EXCEPT
                    !.balance = @ - CalculateCommission(qty, price),
                    !.positions = Append(@, Position(id, symbol, side, qty, price,
                                                     t, margin, take_profit, stop_loss))],
             index |-> [index EXCEPT ![symbol] = Append(@, id)],
             result |-> "raised"]

\* Trade, with the realized_pnl that Trade._calculate_pnl computes on
\* construction: margin * roi / 100 - commission, roi being the price move
\* in percent times the leverage.
Trade(p, exit_price, exit_reason, commission, t) ==
    LET move == IF p.side = "long" THEN exit_price - p.entry_price
                ELSE p.entry_price - exit_price
    IN [symbol |-> p.symbol, side |-> p.side, quantity |-> p.quantity,
        entry_price |-> p.entry_price, entry_time |-> p.entry_time,
        exit_price |-> exit_price, exit_time |-> t, exit_reason |-> exit_reason,
        leverage |-> p.leverage, commission |-> commission, margin |-> p.margin,
        realized_pnl |-> IF p.margin > 0
                         THEN (p.margin * p.leverage * move) \div p.entry_price
                              - commission
                         ELSE 0]

\* VirtualAccount._update_drawdown.
UpdateDrawdown(acct) ==
    LET equity == GetEquity(acct)
        peak == IF equity > acct.max_equity THEN equity ELSE acct.max_equity
    IN [acct EXCEPT
          !.max_equity = peak,
          !.min_equity = IF equity < @ \/ @ = AccountConfig.initial_balance
                         THEN equity ELSE @,
          !.max_drawdown = IF peak > 0 /\ peak - equity > @ THEN peak - equity ELSE @]

RecordTradeUncountedMutant(acct, trade) ==
    UpdateDrawdown(
        [acct EXCEPT !.trades = Append(@, trade),
                     !.win_trades = IF trade.realized_pnl > 0 THEN @ + 1 ELSE @,
                     !.total_pnl = @ + trade.realized_pnl,
                     !.balance = @ + trade.realized_pnl])

\* VirtualAccount.record_trade.
RecordTrade(acct, trade) ==
    UpdateDrawdown(
        [acct EXCEPT !.trades = Append(@, trade),
                     !.total_trades = @ + 1,
                     !.win_trades = IF trade.realized_pnl > 0 THEN @ + 1 ELSE @,
                     !.total_pnl = @ + trade.realized_pnl,
                     !.balance = @ + trade.realized_pnl])

ClosePositionMutant(acct, index, p, exit_price, exit_reason, t) ==
    LET trade == Trade([p EXCEPT !.entry_time = t], exit_price, exit_reason,
                       CalculateCommission(p.quantity, exit_price), p.entry_time)
        IsOther(q) == q.position_id # p.position_id
        IsOtherId(id) == id # p.position_id
    IN [account |-> RecordTrade([acct EXCEPT !.positions = SelectSeq(@, IsOther)], trade),
        index |-> [index EXCEPT ![p.symbol] = SelectSeq(@, IsOtherId)],
        trade |-> trade]

\* PositionManager.close_position.
ClosePosition(acct, index, p, exit_price, exit_reason, t) ==
    LET trade == Trade(p, exit_price, exit_reason,
                       CalculateCommission(p.quantity, exit_price), t)
        IsOther(q) == q.position_id # p.position_id
        IsOtherId(id) == id # p.position_id
    IN [account |-> RecordTrade([acct EXCEPT !.positions = SelectSeq(@, IsOther)], trade),
        index |-> [index EXCEPT ![p.symbol] = SelectSeq(@, IsOtherId)],
        trade |-> trade]

\* PositionManager.update_positions_pnl for {symbol: price}.
UpdatePositionsPnl(acct, index, symbol, price) ==
    [acct EXCEPT !.positions =
        [i \in DOMAIN @ |-> IF @[i].position_id \in SeqToSet(index[symbol])
                            THEN UpdatePnl(@[i], price) ELSE @[i]]]

\* StopLossManager._check_fixed_stop.
CheckFixedStop(p, price) ==
    \/ /\ p.stop_loss_price # 0
       /\ IF p.side = "long" THEN price * LevelScale <= p.stop_loss_price
          ELSE price * LevelScale >= p.stop_loss_price
    \/ IF p.side = "long"
       THEN price * LevelScale <= p.entry_price * (LevelScale - StopLossConfig.fixed_stop_pct)
       ELSE price * LevelScale >= p.entry_price * (LevelScale + StopLossConfig.fixed_stop_pct)

\* StopLossManager._check_trailing_stop: the activation test reads the
\* position's current unrealized_pnl_pct.
CheckTrailingStop(p, price) ==
    /\ ~(Gain(p) * LevelScale < StopLossConfig.trailing_activation * p.entry_price)
    /\ IF p.side = "long"
       THEN /\ p.highest_price > 0
            /\ price * LevelScale
                 <= p.highest_price * (LevelScale - StopLossConfig.trailing_distance)
       ELSE /\ p.lowest_price > 0
            /\ price * LevelScale
                 >= p.lowest_price * (LevelScale + StopLossConfig.trailing_distance)

\* StopLossManager._check_time_stop, t being datetime.now().
CheckTimeStop(p, t) ==
    LET max_hold == IF p.max_hold_seconds <= 0 THEN StopLossConfig.max_hold_seconds
                    ELSE p.max_hold_seconds
    IN t - p.entry_time > max_hold

CheckMultipleStopsMutant(p, price, t) ==
    IF CheckTimeStop(p, t) THEN "time_exit"
    ELSE IF CheckFixedStop(p, price) THEN "stop_loss"
    ELSE IF CheckTrailingStop(p, price) THEN "trailing_stop"
    ELSE "none"

\* StopLossManager._check_multiple_stops.
CheckMultipleStops(p, price, t) ==
    IF CheckFixedStop(p, price) THEN "stop_loss"
    ELSE IF CheckTrailingStop(p, price) THEN "trailing_stop"
    ELSE IF CheckTimeStop(p, t) THEN "time_exit"
    ELSE "none"

\* StopLossManager.check_stop_loss.  The feature carries no ATR here, so the
\* atr method falls back to the fixed stop.
CheckStopLoss(p, price, t) ==
    CASE stopLossMethod = "fixed" ->
            IF CheckFixedStop(p, price) THEN "stop_loss" ELSE "none"
      [] stopLossMethod = "trailing" ->
            IF CheckTrailingStop(p, price) THEN "trailing_stop" ELSE "none"
      [] stopLossMethod = "atr" ->
            IF CheckFixedStop(p, price) THEN "stop_loss" ELSE "none"
      [] stopLossMethod = "multiple" -> CheckMultipleStops(p, price, t)
      [] OTHER -> "none"

\* PositionManager.check_exit with a stop-loss manager (the engine always
\* has one): the exit reason, or "none".  timestamp is the one handed to
\* check_exit, t is datetime.now() as the stop-loss manager reads it; the
\* liquidation test is unrealized_pnl_pct < -100 / leverage.
CheckExit(p, price, timestamp, t) ==
    IF /\ p.take_profit_price # 0
       /\ IF p.side = "long" THEN price * LevelScale >= p.take_profit_price
          ELSE price * LevelScale <= p.take_profit_price
    THEN "take_profit"
    ELSE IF CheckStopLoss(p, price, t) # "none" THEN CheckStopLoss(p, price, t)
    ELSE IF timestamp - p.entry_time > p.max_hold_seconds THEN "time_exit"
    ELSE IF Gain(p) * p.leverage < -p.entry_price THEN "liquidation"
    ELSE "none"

PositionById(acct, id) ==
    acct.positions[CHOOSE i \in DOMAIN acct.positions : acct.positions[i].position_id = id]

\* RealtimeSimEngine._check_and_close_positions over the symbol's list as it
\* was when the loop began.  st is [account, index, checks, trades]: checks
\* records each check_exit call, trades the trades handed to save_trade.
RECURSIVE CheckAndClosePositions(_, _, _, _)
CheckAndClosePositions(st, ids, price, t) ==
    IF ids = <<>> THEN st
    ELSE LET p == PositionById(st.account, ids[1])
             reason == CheckExit(p, price, t, t)
             check == [position |-> p, price |-> price, time |-> t, reason |-> reason]
             closed == ClosePosition(st.account, st.index, p, price, reason, t)
         IN CheckAndClosePositions(
                IF reason = "none"
                THEN [st EXCEPT !.checks = Append(@, check)]
                ELSE [account |-> closed.account, index |-> closed.index,
                      checks |-> Append(st.checks, check),
                      trades |-> Append(st.trades, closed.trade)],
                Tail(ids), price, t)

NoSignal == [present |-> FALSE, side |-> "long", take_profit |-> 0, stop_loss |-> 0]

\* The TradingSignal of MLStrategy.generate_signal, as far as it is read:
\* its levels are those of StopLossManager.calculate_take_profit and
\* calculate_stop_loss at the current price.
TradingSignal(side, price) ==
    [present |-> TRUE, side |-> side,
     take_profit |-> IF side = "long"
                     THEN price * (LevelScale + StopLossConfig.take_profit_pct)
                     ELSE price * (LevelScale - StopLossConfig.take_profit_pct),
     stop_loss |-> IF side = "long"
                   THEN price * (LevelScale - StopLossConfig.fixed_stop_pct)
                   ELSE price * (LevelScale + StopLossConfig.fixed_stop_pct)]

\* PositionManager.has_position(symbol, side).
HasPosition(acct, index, symbol, side) ==
    \E i \in DOMAIN index[symbol] : PositionById(acct, index[symbol][i]).side = side

CheckAndOpenPositionsMutant(acct, index, id, symbol, price, signal, t) ==
    IF ~signal.present
    THEN [account |-> acct, index |-> index, result |-> "skipped", signals |-> 0]
    ELSE IF HasPosition(acct, index, symbol, signal.side)
    THEN [account |-> acct, index |-> index, result |-> "skipped", signals |-> 1]
    ELSE LET opened_ == OpenPosition(acct, index, id, symbol, signal.side, price,
                                     signal, <<>>, t)
         IN [account |-> opened_.account, index |-> opened_.index,
             result |-> opened_.result, signals |-> 1]

\* RealtimeSimEngine._check_and_open_positions: signals counts the
\* increment of _signal_count, result is "skipped" when open_position is
\* not called.
CheckAndOpenPositions(acct, index, id, symbol, price, signal, t) ==
    IF Len(index[symbol]) >= RealtimeConfig.max_positions_per_symbol
    THEN [account |-> acct, index |-> index, result |-> "skipped", signals |-> 0]
    ELSE IF ~signal.present
    THEN [account |-> acct, index |-> index, result |-> "skipped", signals |-> 0]
    ELSE IF HasPosition(acct, index, symbol, signal.side)
    THEN [account |-> acct, index |-> index, result |-> "skipped", signals |-> 1]
    ELSE LET opened_ == OpenPosition(acct, index, id, symbol, signal.side, price,
                                     signal, <<>>, t)
         IN [account |-> opened_.account, index |-> opened_.index,
             result |-> opened_.result, signals |-> 1]

NoAccountState ==
    [present |-> FALSE, balance |-> 0, equity |-> 0, margin_used |-> 0,
     open_positions |-> 0, total_trades |-> 0]

\* RealtimeSimEngine._get_account_state, as far as it is read.
AccountState(acct) ==
    [present |-> TRUE, balance |-> acct.balance, equity |-> GetEquity(acct),
     margin_used |-> GetMarginUsed(acct), open_positions |-> Len(acct.positions),
     total_trades |-> Len(acct.trades)]

\* RealtimeSimEngine._save_account_state on the trading store.
SaveAccountState(st, acct) ==
    [st EXCEPT !.account_state = AccountState(acct),
               !.equity_points = Append(@, [equity |-> GetEquity(acct),
                                            balance |-> acct.balance])]

\* TradingDataStore.save_position: INSERT OR REPLACE of the row, status open.
SavePosition(st, position) ==
    LET IsOther(r) == r.position_id # position.position_id
    IN  [st EXCEPT !.positions =
            Append(SelectSeq(@, IsOther),
                   [position_id |-> position.position_id, status |-> "open"])]

\* TradingDataStore.close_position_in_db(position_id)
ClosePositionInDb(rows, id) ==
    [i \in DOMAIN rows |->
        IF rows[i].position_id = id THEN [rows[i] EXCEPT !.status = "closed"]
        ELSE rows[i]]

\* Trade.trade_id of the k-th trade saved: str(uuid.uuid4())[:8] drawn in
\* close_position, a fresh identifier that no position carries (position
\* ids are counted from 1 here).
TradeId(k) == 0 - k

\* TradingDataStore.save_trade for each trade of a list: the trade row, and
\* then close_position_in_db(trade.trade_id[:8]).
RECURSIVE SaveTrades(_, _)
SaveTrades(st, closedTrades) ==
    IF closedTrades = <<>> THEN st
    ELSE SaveTrades(
            [st EXCEPT !.trades = Append(@, Head(closedTrades)),
                       !.positions = ClosePositionInDb(@, TradeId(Len(st.trades) + 1))],
            Tail(closedTrades))

CloseAllPositionsMutant(acct, index, prices, reason, t) ==
    [account |-> acct, index |-> index, trades |-> <<>>]

\* PositionManager.close_all_positions, over list(account.positions.values()).
RECURSIVE CloseAllPositions(_, _, _, _, _)
CloseAllPositions(acct, index, prices, reason, t) ==
    IF acct.positions = <<>> THEN [account |-> acct, index |-> index, trades |-> <<>>]
    ELSE LET p == acct.positions[1]
             price == IF prices[p.symbol] # 0 THEN prices[p.symbol] ELSE p.current_price
             closed == ClosePosition(acct, index, p, price, reason, t)
             rest == CloseAllPositions(closed.account, closed.index, prices, reason, t)
         IN [account |-> rest.account, index |-> rest.index,
             trades |-> <<closed.trade>> \o rest.trades]

\* The engine and its account after construction, with the stop-loss manager
\* built for the given method.
TradeInitWith(method) ==
    /\ stopLossMethod = method
    /\ account = NewAccount
    /\ posIndex = [s \in TradeSymbols |-> <<>>]
    /\ opened = 0
    /\ engine = [running |-> FALSE, last_save_time |-> 0,
                 signal_count |-> 0, trade_count |-> 0]
    /\ latestPrices = [s \in TradeSymbols |-> 0]
    /\ tradingStore = [account_state |-> NoAccountState, trades |-> <<>>,
                equity_points |-> <<>>, positions |-> <<>>]
    /\ exitChecks = <<>>
    /\ lastCall = [op |-> "none", result |-> "none"]
    /\ tradeSteps = 0
    /\ shutdowns = 0
    /\ closing = <<>>
    /\ dashboard = [requests |-> 0, balance |-> 0, equity |-> 0,
                    margin_used |-> 0, open_positions |-> 0]

\* The engine built with the default StopLossConfig.
TradeInit == TradeInitWith(StopLossConfig.method)

MaxTradeSteps == 3

MaxTrailSteps == 4

MaxShutdowns == 1

MaxTradeTime == 901


\* RealtimeSimEngine.start, called once by MonitorApp.start.
EngineStart ==
    /\ ~engine.running
    /\ shutdowns = 0
    /\ engine' = [engine EXCEPT !.running = TRUE, !.last_save_time = clock]
    /\ lastCall' = [op |-> "start", result |-> "none"]
    /\ UNCHANGED <<account, posIndex, opened, latestPrices, tradingStore, exitChecks,
                   tradeSteps, shutdowns, clock, tradeRest>>

\* RealtimeSimEngine.on_feature_update(symbol, feature, current_price), the
\* feature carrying the current time; signal is what generate_signal would
\* return.  An exception of open_position is caught by the handler, which
\* then skips save_position and _maybe_save_state.
OnFeatureUpdate(symbol, price, signal) ==
    /\ engine.running
    /\ \E updated \in {UpdatePositionsPnl(account, posIndex, symbol, price)} :
       \E closed \in {CheckAndClosePositions(
                         [account |-> updated, index |-> posIndex,
                          checks |-> <<>>, trades |-> <<>>],
                         posIndex[symbol], price, clock)} :
       \E open \in {CheckAndOpenPositions(closed.account, closed.index, opened + 1,
                                          symbol, price, signal, clock)} :
       \E save \in {open.result # "raised"
                    /\ clock - engine.last_save_time >= RealtimeConfig.save_interval} :
          /\ account' = open.account
          /\ posIndex' = open.index
          /\ opened' = IF open.result = "raised" THEN opened + 1 ELSE opened
          /\ exitChecks' = closed.checks
          /\ engine' = [engine EXCEPT
                          !.signal_count = @ + open.signals,
                          !.trade_count = @ + Len(closed.trades),
                          !.last_save_time = IF save THEN clock ELSE @]
          /\ \E saved \in {IF open.result = "opened"
                            THEN SavePosition(SaveTrades(tradingStore, closed.trades),
                                     open.account.positions[Len(open.account.positions)])
                            ELSE SaveTrades(tradingStore, closed.trades)} :
                tradingStore' = IF save THEN SaveAccountState(saved, open.account)
                                ELSE saved
          /\ lastCall' = [op |-> "on_feature_update", result |-> open.result]
    /\ latestPrices' = [latestPrices EXCEPT ![symbol] = price]
    /\ tradeSteps' = tradeSteps + 1
    /\ UNCHANGED <<shutdowns, clock, tradeRest>>

\* The trading part of MonitorApp.stop: trading_engine.close_all_positions()
\* (reason MANUAL, prices _latest_prices, every trade saved) and then
\* trading_engine.stop(), which clears _running and saves the account state.
\* Neither suspends, so no feature update runs in between.  main() runs
\* MonitorApp.stop from the signal handler and again in its finally block.
MonitorStop ==
    /\ \E closed \in {CloseAllPositions(account, posIndex, latestPrices,
                                        "manual", clock)} :
          /\ account' = closed.account
          /\ posIndex' = closed.index
          /\ tradingStore' = [SaveTrades(tradingStore, closed.trades) EXCEPT
                                    !.account_state = AccountState(closed.account)]
    /\ engine' = [engine EXCEPT !.running = FALSE]
    /\ lastCall' = [op |-> "stop", result |-> "none"]
    /\ shutdowns' = shutdowns + 1
    /\ UNCHANGED <<opened, latestPrices, exitChecks, tradeSteps, clock, tradeRest>>

\* The clock moves to its first reading past the default holding time (and
\* past save_interval).
TradeTick ==
    /\ clock + DefaultMaxHoldSeconds + 1 <= MaxTradeTime
    /\ clock' = clock + DefaultMaxHoldSeconds + 1
    /\ UNCHANGED <<tradeVars, tradeRest>>

\* A call of the public PositionManager.open_position outside a feature
\* update, without a signal and with or without an explicit quantity.
OpenPositionCall(symbol, side, price, quantity) ==
    /\ \E open \in {OpenPosition(account, posIndex, opened + 1, symbol, side, price,
                                 NoSignal, quantity, clock)} :
          /\ account' = open.account
          /\ posIndex' = open.index
          /\ opened' = IF open.result = "raised" THEN opened + 1 ELSE opened
          /\ lastCall' = [op |-> "open_position", result |-> open.result]
    /\ tradeSteps' = tradeSteps + 1
    /\ UNCHANGED <<engine, latestPrices, tradingStore, exitChecks, shutdowns, clock, tradeRest>>

\* Inputs: prices in cents around an entry at 100.00, and the signal the
\* strategy may give at that price.
TradePrices(symbol) ==
    IF symbol = "AAAUSDT" THEN {8500, 10000, 10100, 10300} ELSE {10000}

TradeSignals(symbol, price) ==
    IF symbol = "AAAUSDT"
    THEN {NoSignal, TradingSignal("long", price), TradingSignal("short", price)}
    ELSE {NoSignal, TradingSignal("long", price)}

\* Explicit quantities: none, zero, and positions worth 10%, 40% and 200% of
\* the initial balance in margin at a price of 100.00.
TradeQuantities == {<<>>, <<0>>, <<150>>, <<600>>, <<3000>>}

TradeNext ==
    \/ EngineStart
    \/ \E s \in TradeSymbols : \E price \in TradePrices(s) :
       \E signal \in TradeSignals(s, price) :
          tradeSteps < MaxTradeSteps /\ OnFeatureUpdate(s, price, signal)
    \/ shutdowns < MaxShutdowns /\ MonitorStop
    \/ TradeTick

AccountNext ==
    \/ EngineStart
    \/ \E s \in TradeSymbols : \E price \in TradePrices(s) :
       \E signal \in TradeSignals(s, price) :
          tradeSteps < MaxTradeSteps /\ OnFeatureUpdate(s, price, signal)
    \/ shutdowns < MaxShutdowns /\ MonitorStop
    \/ TradeTick
    \/ \E s \in TradeSymbols : \E q \in TradeQuantities :
          tradeSteps < MaxTradeSteps /\ OpenPositionCall(s, "long", 10000, q)

\* Shutdown requested by a signal and run again by the final cleanup of
\* main(): MonitorApp.stop runs up to MaxStopCalls times.
MaxStopCalls == 2

ShutdownNext ==
    \/ EngineStart
    \/ \E s \in TradeSymbols : \E price \in TradePrices(s) :
       \E signal \in TradeSignals(s, price) :
          tradeSteps < MaxTradeSteps /\ OnFeatureUpdate(s, price, signal)
    \/ shutdowns < MaxStopCalls /\ MonitorStop
    \/ TradeTick

\* VirtualAccount.reset.
AccountReset(acct) == NewAccount

\* BacktestEngine.run(symbol), the account and the position manager being
\* the engine's; rows are the prices of the feature rows loaded for the
\* symbol, all positive.  The account is reset first, and nothing is done to
\* the position manager.  Without rows run returns an empty result; with
\* rows, _dict_to_feature raises on the first one (MLFeatureVector takes no
\* price_change_30m), before _backtest_step, and the exception leaves run.
BacktestRun(symbol, rows) ==
    /\ account' = AccountReset(account)
    /\ lastCall' = [op |-> "backtest_run",
                    result |-> IF rows = <<>> THEN "empty" ELSE "raised"]
    /\ tradeSteps' = tradeSteps + 1
    /\ UNCHANGED <<posIndex, opened, engine, latestPrices, tradingStore, exitChecks,
                   shutdowns, clock, tradeRest>>

\* Feature rows of a back-test: up to MaxBacktestRows prices.
MaxBacktestRows == 1

MaxBacktestSteps == 3

BacktestRows ==
    UNION {[1..n -> {10000, 10100}] : n \in 0..MaxBacktestRows}

\* A back-test engine whose position manager is also used directly.
BacktestNext ==
    \/ \E s \in TradeSymbols : \E rows \in BacktestRows :
          tradeSteps < MaxBacktestSteps /\ BacktestRun(s, rows)
    \/ \E s \in TradeSymbols : \E q \in TradeQuantities :
          tradeSteps < MaxBacktestSteps /\ OpenPositionCall(s, "long", 10000, q)
    \/ TradeTick

\* An engine whose stop-loss manager uses any of the four methods, fed
\* prices 2% below and above an entry at 100.00: beyond the signal's stop
\* level (1.5% away), short of its take-profit level and of liquidation.
StopLossMethods == {"fixed", "atr", "trailing", "multiple"}

StopPrices == {9800, 10000, 10200}

MaxStopSteps == 3

StopLossNext ==
    \/ EngineStart
    \/ \E price \in StopPrices :
       \E signal \in {NoSignal, TradingSignal("long", price),
                      TradingSignal("short", price)} :
          tradeSteps < MaxStopSteps /\ OnFeatureUpdate("AAAUSDT", price, signal)
    \/ shutdowns < MaxShutdowns /\ MonitorStop
    \/ TradeTick

\* A long position on one symbol followed over small price moves.
TrailPrices == {10000, 10098, 10100, 10200, 10250}

TrailNext ==
    \/ EngineStart
    \/ \E price \in TrailPrices :
       \E signal \in {NoSignal, TradingSignal("long", price)} :
          tradeSteps < MaxTrailSteps /\ OnFeatureUpdate("AAAUSDT", price, signal)
    \/ shutdowns < MaxShutdowns /\ MonitorStop
    \/ TradeTick

-----------------------------------------------------------------------------
(***************************************************************************)
(* MLStrategy (src/src/ml/trading/strategy.py)                             *)
(*                                                                         *)
(* Ratios and percentages are in hundredths, scores and confidences in     *)
(* thousandths; an optional feature value is <<>> for None and <<v>>       *)
(* otherwise.                                                              *)
(***************************************************************************)

\* StrategyConfig with its default values.
StrategyConfig ==
    [min_confidence |-> 500, signal_threshold |-> 400, indicator_filter |-> TRUE,
     rsi_oversold |-> 3000, rsi_overbought |-> 7000,
     min_volatility |-> 30, min_volume_ratio |-> 50,
     imbalance_long_threshold |-> 65, imbalance_short_threshold |-> 35,
     trend_filter_pct |-> 100]

\* The configurations a strategy is built with: the default, one whose
\* min_confidence lies below its signal_threshold, and one without the
\* indicator filter.
StrategyConfigs ==
    {StrategyConfig,
     [StrategyConfig EXCEPT !.min_confidence = 300],
     [StrategyConfig EXCEPT !.indicator_filter = FALSE, !.signal_threshold = 200]}

\* The terms _predict_direction adds to the score, in its order: RSI, MACD,
\* order-book imbalance, one-minute momentum, reversal.  "rsi and ..." skips
\* an RSI of None and of 0.
ScoreTerms(cfg, f) ==
    <<IF f.rsi_14 # <<>> /\ f.rsi_14[1] # 0 /\ f.rsi_14[1] < cfg.rsi_oversold
      THEN 300
      ELSE IF f.rsi_14 # <<>> /\ f.rsi_14[1] # 0
              /\ f.rsi_14[1] > cfg.rsi_overbought THEN -300
      ELSE 0,
      IF f.macd_line # <<>> /\ f.macd_signal # <<>>
      THEN IF f.macd_line[1] > f.macd_signal[1] THEN 200 ELSE -200
      ELSE 0,
      IF f.imbalance_ratio_10 = <<>> THEN 0
      ELSE IF f.imbalance_ratio_10[1] > cfg.imbalance_long_threshold THEN 250
      ELSE IF f.imbalance_ratio_10[1] < cfg.imbalance_short_threshold THEN -250
      ELSE 0,
      IF f.price_change_1m = <<>> THEN 0
      ELSE IF f.price_change_1m[1] > 50 THEN 150
      ELSE IF f.price_change_1m[1] < -50 THEN -150
      ELSE 0,
      IF f.reversal_type = "top" THEN -300
      ELSE IF f.reversal_type = "bottom" THEN 300
      ELSE 0>>

\* The score is a sum of binary floating-point numbers: with two or more
\* non-zero terms the computed sum may lie one unit in the last place off
\* the decimal sum, on either side (-0.3 - 0.25 - 0.15 + 0.3 evaluates to
\* -0.4000000000000001).  The deviation is far below a thousandth; it is
\* kept as a third component that only breaks ties.
RoundingErrors(cfg, f) ==
    LET NonZero(term) == term # 0
    IN  IF Len(SelectSeq(ScoreTerms(cfg, f), NonZero)) >= 2
        THEN {-1, 0, 1} ELSE {0}

\* x < y, x and y being <<thousandths, last-place deviation>>.
ScoreLess(x, y) == x[1] < y[1] \/ (x[1] = y[1] /\ x[2] < y[2])

\* abs() and min(., 1.0) on such a pair.
ScoreAbs(x) == IF ScoreLess(x, <<0, 0>>) THEN <<-x[1], -x[2]>> ELSE x

\* MLStrategy._predict_direction, err being the deviation of the computed
\* sum.
PredictDirection(cfg, f, err) ==
    LET terms == ScoreTerms(cfg, f)
        score == <<terms[1] + terms[2] + terms[3] + terms[4] + terms[5], err>>
        confidence == IF ScoreLess(ScoreAbs(score), <<1000, 0>>)
                      THEN ScoreAbs(score) ELSE <<1000, 0>>
        threshold == <<cfg.signal_threshold, 0>>
    IN  IF ScoreLess(threshold, score)
        THEN [direction |-> 1, confidence |-> confidence, score |-> score]
        ELSE IF ScoreLess(score, <<-threshold[1], 0>>)
        THEN [direction |-> -1, confidence |-> confidence, score |-> score]
        ELSE [direction |-> 0, confidence |-> <<0, 0>>, score |-> score]

\* MLStrategy._pass_indicator_filter.
PassIndicatorFilter(cfg, f, direction) ==
    /\ ~(f.volatility_5m # <<>> /\ f.volatility_5m[1] < cfg.min_volatility)
    /\ ~(f.volume_ratio_5m # <<>> /\ f.volume_ratio_5m[1] < cfg.min_volume_ratio)
    /\ f.price_change_5m # <<>> =>
          /\ ~(direction > 0 /\ f.price_change_5m[1] < -cfg.trend_filter_pct)
          /\ ~(direction < 0 /\ f.price_change_5m[1] > cfg.trend_filter_pct)

PassRiskCheckMutant(f) == TRUE

\* MLStrategy._pass_risk_check; spread_bps in basis points.
PassRiskCheck(f) ==
    /\ ~(f.spread_bps # <<>> /\ f.spread_bps[1] > 100)
    /\ f.imbalance_ratio_10 # <<>> =>
          ~(f.imbalance_ratio_10[1] > 95 \/ f.imbalance_ratio_10[1] < 5)

\* MLStrategy.generate_signal: the signal with its confidence, or NoSignal.
GenerateSignal(cfg, f, price, err) ==
    LET predicted == PredictDirection(cfg, f, err)
    IN  IF \/ predicted.direction = 0
           \/ ScoreLess(predicted.confidence, <<cfg.min_confidence, 0>>)
           \/ cfg.indicator_filter
              /\ ~PassIndicatorFilter(cfg, f, predicted.direction)
           \/ ~PassRiskCheck(f)
        THEN [confidence |-> <<0, 0>>] @@ NoSignal
        ELSE [confidence |-> predicted.confidence]
             @@ TradingSignal(IF predicted.direction > 0 THEN "long" ELSE "short",
                              price)

\* The feature vectors handed to the strategy, as far as it reads them.
StrategyFeatures ==
    [rsi_14 : {<<0>>, <<8000>>},
     macd_line : {<<>>, <<-1>>, <<1>>},
     macd_signal : {<<0>>},
     imbalance_ratio_10 : {<<>>, <<2>>, <<5>>, <<95>>, <<97>>},
     price_change_1m : {<<>>, <<-60>>},
     reversal_type : {"", "bottom"},
     volatility_5m : {<<40>>},
     volume_ratio_5m : {<<100>>},
     price_change_5m : {<<0>>, <<150>>},
     spread_bps : {<<100>>, <<101>>}]

\* The strategy as constructed with configuration cfg, before any call.
StrategyInit(cfg) ==
    /\ strategyCall = [config |-> cfg, calls |-> 0, feature |-> <<>>,
                       score |-> <<0, 0>>,
                       signal |-> [confidence |-> <<0, 0>>] @@ NoSignal]
    /\ featureCall = [calls |-> 0, symbol |-> "", result |-> <<>>]

\* A generate_signal call on the strategy; the strategy keeps no state
\* between calls.
GenerateSignalCall(f, price) ==
    /\ \E err \in RoundingErrors(strategyCall.config, f) :
          strategyCall' =
              [strategyCall EXCEPT
                  !.calls = 1,
                  !.feature = <<f>>,
                  !.score = PredictDirection(strategyCall.config, f, err).score,
                  !.signal = GenerateSignal(strategyCall.config, f, price, err)]
    /\ UNCHANGED <<featureCall, riskCall, stopLossMethod, strategyRest>>

StrategyNext == \E f \in StrategyFeatures : GenerateSignalCall(f, 10000)

-----------------------------------------------------------------------------
(***************************************************************************)
(* The web dashboard (src/src/web/app.py)                                  *)
(*                                                                         *)
(* run_web_server runs the Flask application in a thread of its own; its   *)
(* handlers read the VirtualAccount object the trading engine mutates on   *)
(* the event-loop thread.  Neither side takes a lock, so a request may be  *)
(* served between any two statements of close_position.                    *)
(***************************************************************************)

MaxDashboardRequests == 2

\* PositionManager.close_position up to the removal of the position from
\* the account and the index (lines 173-202), at the position's current
\* price as close_all_positions passes it when it has no later one.
CloseRemove(i) ==
    /\ closing = <<>>
    /\ i \in DOMAIN account.positions
    /\ LET p == account.positions[i]
           IsOther(q) == q.position_id # p.position_id
           IsOtherId(id) == id # p.position_id
       IN  /\ closing' = <<Trade(p, p.current_price, "manual",
                                 CalculateCommission(p.quantity, p.current_price),
                                 clock)>>
           /\ account' = [account EXCEPT !.positions = SelectSeq(@, IsOther)]
           /\ posIndex' = [posIndex EXCEPT ![p.symbol] = SelectSeq(@, IsOtherId)]
    /\ UNCHANGED <<opened, engine, latestPrices, tradingStore, exitChecks, lastCall,
                   tradeSteps, shutdowns, dashboard, clock, notified, delivered,
                   webRest>>

\* The rest of close_position: account.record_trade(trade) (line 205).
CloseRecord ==
    /\ closing # <<>>
    /\ account' = RecordTrade(account, closing[1])
    /\ closing' = <<>>
    /\ UNCHANGED <<posIndex, opened, engine, latestPrices, tradingStore, exitChecks,
                   lastCall, tradeSteps, shutdowns, dashboard, clock, notified,
                   delivered, webRest>>

\* api_account on the dashboard thread, reading the live account.
ApiAccount ==
    /\ dashboard.requests < MaxDashboardRequests
    /\ dashboard' = [requests |-> dashboard.requests + 1,
                     balance |-> account.balance,
                     equity |-> GetEquity(account),
                     margin_used |-> GetMarginUsed(account),
                     open_positions |-> Len(account.positions)]
    /\ UNCHANGED <<tradeVars, closing, clock, notified, delivered, webRest>>

\* The engine thread opens positions and follows prices by whole feature
\* updates, and closes positions statement by statement; the dashboard
\* thread serves requests at any moment.
DashboardNext ==
    \/ EngineStart
    \/ \E s \in TradeSymbols : \E price \in {10000, 10100} :
       \E signal \in {NoSignal, TradingSignal("long", price)} :
          /\ tradeSteps < MaxTradeSteps
          /\ closing = <<>>
          /\ OnFeatureUpdate(s, price, signal)
    \/ \E i \in 1..AccountConfig.max_positions : CloseRemove(i)
    \/ CloseRecord
    \/ ApiAccount

-----------------------------------------------------------------------------
(***************************************************************************)
(* FeatureEngine.compute_features (src/src/ml/feature_engine.py)           *)
(*                                                                         *)
(* MonitorApp._handle_tickers calls it for every ticker of a batch after   *)
(* the tracker has taken the batch.  The engine reaches the tracker with   *)
(* _trackers.get(symbol) and with the tracker's query methods, which read  *)
(* with .get as well; it holds no reference to the label generator.        *)
(***************************************************************************)

\* compute_features: a symbol with fewer price points yields None
MinFeaturePoints == 5

\* FeatureEngine._get_price_change_window(symbol, window_seconds) at clock
\* reading t: 0.0 where the window gives no change.
GetPriceChangeWindow(trs, s, window, t) ==
    LET c == GetPriceChange(trs, s, window, t)
    IN  IF c.some THEN c ELSE Change(0, 1)

\* A feature engine that reaches the tracker with _trackers[symbol], which
\* the defaultdict answers by creating the entry.
ComputeFeaturesMutant(trs, s, t) ==
    LET made == SetTracker(trs, s, TrackerOf(trs, s))
        tr == made[s]
    IN  [trackers |-> made,
         result |-> IF Len(tr.price_history) < MinFeaturePoints THEN <<>>
                    ELSE IF tr.latest_price = 0 THEN <<>>
                    ELSE <<[symbol |-> s, timestamp |-> t,
                            price |-> tr.latest_price,
                            price_change_1m |-> GetPriceChangeWindow(made, s, 60, t),
                            price_change_5m |-> GetPriceChangeWindow(made, s, 300, t)]>>]

\* FeatureEngine.compute_features(symbol) at clock reading t: the tracker
\* dictionary it leaves behind and the vector it returns (<<>> is None).
ComputeFeatures(trs, s, t) ==
    [trackers |-> trs,
     result |-> IF s \notin DOMAIN trs THEN <<>>
                ELSE IF Len(trs[s].price_history) < MinFeaturePoints THEN <<>>
                ELSE IF trs[s].latest_price = 0 THEN <<>>
                ELSE <<[symbol |-> s, timestamp |-> t,
                        price |-> trs[s].latest_price,
                        price_change_1m |-> GetPriceChangeWindow(trs, s, 60, t),
                        price_change_5m |-> GetPriceChangeWindow(trs, s, 300, t)]>>]

\* One compute_features call.
ComputeFeaturesCall(s) ==
    /\ \E r \in {ComputeFeatures(trackers, s, clock)} :
          /\ trackers' = r.trackers
          /\ featureCall' = [calls |-> featureCall.calls + 1, symbol |-> s,
                             result |-> r.result]
    /\ UNCHANGED <<strategyCall, riskCall, stopLossMethod, sinkVars, settings, cooldowns, emitted, batches,
                   oiPolls, alertRows, lastCleanup, labelVars, bookVars,
                   tradeVars, webVars>>

\* How many batches and calls a behaviour makes.
MaxFeatureBatches == 5

MaxFeatureCalls == 2

\* The symbols features are asked for; the ticker stream carries the first.
FeatureSymbols == {"AAAUSDT", "BBBUSDT"}

FeatureNext ==
    \/ AlertTick
    \/ \E p \in {0, 100, 102} :
          /\ batches < MaxFeatureBatches
          /\ ProcessTickers(<<TickerData("AAAUSDT", p, 10, clock)>>, 0)
    \/ \E s \in FeatureSymbols :
          featureCall.calls < MaxFeatureCalls /\ ComputeFeaturesCall(s)

-----------------------------------------------------------------------------
(***************************************************************************)
(* RiskFilter.check_risk and should_filter_alert on a price path           *)
(*                                                                         *)
(* The ticker stream carries one symbol along the path 100 -> 103 -> 100.1 *)
(* (in tenths: 1000, 1030, 1001), each price for any number of ticks, and  *)
(* the risk check is made at any moment, with or without a WebSocket       *)
(* receive time.  No caller in the repository passes a receive time.       *)
(***************************************************************************)

\* The latency bounds a configuration file may set.
RiskConfigs ==
    {[RiskConfig EXCEPT !.max_ws_latency_ms = b] : b \in {200, 500, 1000}}

\* How many ticks the path has at most, and how many checks are made.
MaxRiskBatches == 10

MaxRiskCalls == 1

\* The prices the next tick of the path may carry.
PathPrices(trs, s) ==
    IF ~HasLatest(trs, s) THEN {1000}
    ELSE CASE trs[s].latest_price = 1000 -> {1000, 1030}
           [] trs[s].latest_price = 1030 -> {1030, 1001}
           [] OTHER -> {1001}

\* The milliseconds a message may have taken to be received.
WsLatencies == {300, 600}

\* check_risk(symbol, ticker = tracker.get_latest(symbol), ws_receive_time)
\* followed by should_filter_alert(result).  recv is <<>> for a call without
\* a receive time, else the milliseconds after the ticker's stamp.
RiskCheckCall(s, recv) ==
    /\ \E ticker \in {IF HasLatest(trackers, s)
                       THEN <<trackers[s].last_update * 1000>> ELSE <<>>} :
       \E at \in {IF recv = <<>> \/ ticker = <<>> THEN <<>>
                   ELSE <<ticker[1] + recv[1]>>} :
       \E result \in {CheckRisk(riskCall.config, PriceHistoryOf(trackers, s),
                                SnapshotOf(snapshots, s), wallEvents[s],
                                ticker, at, clock)} :
          riskCall' = [riskCall EXCEPT
                          !.calls = @ + 1,
                          !.symbol = s,
                          !.ticker = ticker,
                          !.ws_receive_time = at,
                          !.history = PriceHistoryOf(trackers, s),
                          !.now = clock,
                          !.result = <<result>>,
                          !.filtered = ShouldFilterAlert(riskCall.config, result)]
    /\ UNCHANGED <<strategyCall, featureCall, stopLossMethod, labelVars, sinkVars, bookVars,
                   alertVars, tradeVars, webVars>>

RiskNext ==
    \/ AlertTick
    \/ \E p \in PathPrices(trackers, "AAAUSDT") :
          /\ batches < MaxRiskBatches
          /\ ProcessTickers(<<TickerData("AAAUSDT", p, 10, clock)>>, 0)
    \/ \E recv \in {<<>>} \cup {<<d>> : d \in WsLatencies} :
          riskCall.calls < MaxRiskCalls /\ RiskCheckCall("AAAUSDT", recv)

-----------------------------------------------------------------------------
(***************************************************************************)
(* Specifications: one per component, each leaving the others idle         *)
(***************************************************************************)

Init ==
    /\ LabelInit
    /\ clock = 0
    /\ notified = <<>>
    /\ delivered = 0
    /\ StrategyInit(StrategyConfig)
    /\ RiskInit(RiskConfig)
    /\ BookInit
    /\ AlertInit(SmallSettings)
    /\ TradeInit

SpecLabel == Init /\ [][LabelNext]_vars

\* _generate_ml_labels runs try_generate_all_labels every 10 seconds while
\* the application runs, and the wall clock advances.
SpecLabelLive ==
    /\ Init
    /\ [][LabelLiveNext]_vars
    /\ WF_vars(LabelTick)
    /\ WF_vars(\E s \in LabelSymbols : TryGenerateLabels(s))

SpecBook == Init /\ [][BookNext]_vars

\* One symbol's book switching between a bid wall, an ask wall and no wall
\* at all, long enough for walls to appear and disappear WallFlashCount
\* times each.
MaxFlashSnapshots == 6

FlashBooks ==
    {OrderBookSnapshot(<<<<1000, q>>, <<999, 10>>, <<998, 10>>, <<997, 10>>>>,
                       <<<<1001, r>>, <<1002, 10>>, <<1003, 10>>, <<1004, 10>>>>) :
        q \in {10, 1000}, r \in {10, 1000}}

FlashNext ==
    \/ BookTick
    \/ \E snap \in FlashBooks :
          obProcessed < MaxFlashSnapshots /\ ProcessSnapshot("AAAUSDT", snap)

SpecFlash == Init /\ [][FlashNext]_vars

SpecAlert == Init /\ [][AlertNext]_vars

\* The alert path under each of the settings a detector tests: a detector
\* switched off, a whitelist and a blacklist naming one of the two symbols,
\* three tiers configured in no particular order, and tiers of which none
\* starts at 0.
DetectSettings ==
    {SmallSettings,
     [SmallSettings EXCEPT
        !.tiers = <<VolumeTierConfig(1010, 2, 4, "mid"),
                    VolumeTierConfig(0, 2, 5, "small"),
                    VolumeTierConfig(1100, 1, 3, "large")>>],
     [SmallSettings EXCEPT
        !.tiers = <<VolumeTierConfig(1000, 2, 5, "mid"),
                    VolumeTierConfig(1100, 1, 3, "large")>>],
     [SmallSettings EXCEPT !.price_enabled = FALSE],
     [SmallSettings EXCEPT !.oi_enabled = FALSE],
     [SmallSettings EXCEPT !.filter_mode = "whitelist", !.whitelist = {"AAAUSDT"}],
     [SmallSettings EXCEPT !.filter_mode = "blacklist", !.blacklist = {"AAAUSDT"}]}

DetectInit ==
    /\ LabelInit
    /\ clock = 0
    /\ notified = <<>>
    /\ delivered = 0
    /\ StrategyInit(StrategyConfig)
    /\ RiskInit(RiskConfig)
    /\ BookInit
    /\ \E s \in DetectSettings : AlertInit(s)
    /\ TradeInit

SpecDetect == DetectInit /\ [][AlertNext]_vars

RampInit ==
    /\ LabelInit
    /\ clock = 0
    /\ notified = <<>>
    /\ delivered = 0
    /\ StrategyInit(StrategyConfig)
    /\ RiskInit(RiskConfig)
    /\ BookInit
    /\ AlertInit(RampSettings)
    /\ TradeInit

SpecRamp == RampInit /\ [][RampNext]_vars

\* The state of the long run when the model takes it up.
TrackerInit ==
    /\ LabelInit
    /\ clock = PriceHistoryMaxLen
    /\ notified = <<>>
    /\ delivered = 0
    /\ StrategyInit(StrategyConfig)
    /\ RiskInit(RiskConfig)
    /\ BookInit
    /\ settings = SmallSettings
    /\ trackers = [s \in {"AAAUSDT"} |-> FullTracker]
    /\ cooldowns = [k \in AlertSymbols \X AlertKinds |-> DatetimeMin]
    /\ emitted = <<>>
    /\ batches = 0
    /\ oiPolls = 0
    /\ alertRows = <<>>
    /\ lastCleanup = -1
    /\ TradeInit

SpecTracker == TrackerInit /\ [][TrackerNext]_vars

SpecNotify == Init /\ [][NotifyNext]_vars

SpecTrade == Init /\ [][TradeNext]_vars

SpecAccount == Init /\ [][AccountNext]_vars

SpecTrail == Init /\ [][TrailNext]_vars

SpecDashboard == Init /\ [][DashboardNext]_vars

SpecShutdown == Init /\ [][ShutdownNext]_vars

SpecBacktest == Init /\ [][BacktestNext]_vars

\* The application started with any stop-loss method configured.
StopLossStart ==
    /\ LabelInit
    /\ clock = 0
    /\ notified = <<>>
    /\ delivered = 0
    /\ StrategyInit(StrategyConfig)
    /\ RiskInit(RiskConfig)
    /\ BookInit
    /\ AlertInit(SmallSettings)
    /\ \E method \in StopLossMethods : TradeInitWith(method)

SpecStopLoss == StopLossStart /\ [][StopLossNext]_vars

\* A strategy built with any of the configurations, everything else idle.
StrategyStart ==
    /\ LabelInit
    /\ clock = 0
    /\ notified = <<>>
    /\ delivered = 0 /\ BookInit
    /\ AlertInit(SmallSettings)
    /\ TradeInit
    /\ \E cfg \in StrategyConfigs : StrategyInit(cfg)
    /\ RiskInit(RiskConfig)

SpecStrategy == StrategyStart /\ [][StrategyNext]_vars

SpecFeature == Init /\ [][FeatureNext]_vars

RiskStart ==
    /\ LabelInit
    /\ clock = 0
    /\ notified = <<>>
    /\ delivered = 0
    /\ StrategyInit(StrategyConfig)
    /\ \E cfg \in RiskConfigs : RiskInit(cfg)
    /\ BookInit
    /\ AlertInit(SmallSettings)
    /\ TradeInit

SpecRisk == RiskStart /\ [][RiskNext]_vars

-----------------------------------------------------------------------------
(***************************************************************************)
(* Claims                                                                  *)
(***************************************************************************)

C3_SinkOnlyPassed ==
    \A i \in 1..Len(notified) : ~notified[i].risk_filtered

\* C7 (as stated): when a wall tracked after the previous snapshot has less
\* than 20% of its quantity left in the snapshot being processed, the value
\* gone is at least sweep_value_threshold and the side's sweep cooldown has
\* run out, process_snapshot returns a sweep event for that side.
C7_SweepEmitted ==
    [][\A s \in BookSymbols :
          \A i \in 1..Len(trackedWalls[s]) :
             (/\ obProcessed' = obProcessed + 1
              /\ snapshots[s].present
              /\ Swept(snapshots'[s], trackedWalls[s][i])
              /\ BookIsCooledDown(obCooldowns, s,
                                  "sweep_" \o trackedWalls[s][i].side, clock))
             => \E k \in 1..Len(obEvents') :
                   /\ obEvents'[k].event_type = "sweep"
                   /\ obEvents'[k].side = trackedWalls[s][i].side]_vars

C4_MarginWithinBalance == GetMarginUsed(account) <= account.balance

\* The exit conditions of C5 in the order the claim gives them, each as the
\* test the code makes for it.
ExitOrder == <<"take_profit", "stop_loss", "trailing_stop", "time_exit", "liquidation">>

TakeProfitHit(p, price) ==
    /\ p.take_profit_price # 0
    /\ IF p.side = "long" THEN price * LevelScale >= p.take_profit_price
       ELSE price * LevelScale <= p.take_profit_price

ExitConditionHolds(reason, c) ==
    CASE reason = "take_profit" -> TakeProfitHit(c.position, c.price)
      [] reason = "stop_loss" -> CheckFixedStop(c.position, c.price)
      [] reason = "trailing_stop" -> CheckTrailingStop(c.position, c.price)
      [] reason = "time_exit" -> c.time - c.position.entry_time > c.position.max_hold_seconds
      [] reason = "liquidation" ->
            Gain(c.position) * c.position.leverage < -c.position.entry_price

Holding(c) == {k \in DOMAIN ExitOrder : ExitConditionHolds(ExitOrder[k], c)}

\* C5: every check_exit call reports the earliest condition, in the order
\* take-profit, fixed stop, trailing stop, time exit, liquidation, that holds
\* at that price update, and reports no exit only when none of them holds.
C5_FirstMatchWins ==
    \A i \in DOMAIN exitChecks :
        exitChecks[i].reason =
            IF Holding(exitChecks[i]) = {} THEN "none"
            ELSE ExitOrder[SetMin(Holding(exitChecks[i]))]

\* C5 witness: a check at which the fixed stop, the time exit and the
\* liquidation all hold, reported as a stop-loss, and the position closed.
C5_Witness ==
    \E i \in DOMAIN exitChecks :
        /\ {2, 4, 5} \subseteq Holding(exitChecks[i])
        /\ exitChecks[i].reason = "stop_loss"
        /\ Len(account.trades) > 0
        /\ account.trades[Len(account.trades)].exit_reason = "stop_loss"

\* The trailing stop of C6 was activated at some earlier update: the best
\* price seen since entry gave a profit of at least trailing_activation.
TrailingActivated(p) ==
    IF p.side = "long"
    THEN (p.highest_price - p.entry_price) * LevelScale
            >= StopLossConfig.trailing_activation * p.entry_price
    ELSE (p.entry_price - p.lowest_price) * LevelScale
            >= StopLossConfig.trailing_activation * p.entry_price

PastTrailingLevel(p, price) ==
    IF p.side = "long"
    THEN price * LevelScale <= p.highest_price * (LevelScale - StopLossConfig.trailing_distance)
    ELSE price * LevelScale >= p.lowest_price * (LevelScale + StopLossConfig.trailing_distance)

\* C6 (as stated): once a position's unrealized profit has reached
\* trailing_activation, a price update at or beyond highest * (1 - distance)
\* for a long, lowest * (1 + distance) for a short, makes the exit check
\* return the trailing stop (unless take-profit or the fixed stop, which are
\* checked first, apply).
C6_TrailingStopAfterActivation ==
    \A i \in DOMAIN exitChecks :
        LET c == exitChecks[i]
        IN (/\ TrailingActivated(c.position)
            /\ PastTrailingLevel(c.position, c.price)
            /\ ~TakeProfitHit(c.position, c.price)
            /\ ~CheckFixedStop(c.position, c.price))
           => c.reason = "trailing_stop"

\* The trades that a step appended to the account's trade list.
NewTrades == SubSeq(account'.trades, Len(account.trades) + 1, Len(account'.trades))

RECURSIVE SumRealized(_)
SumRealized(ts) == IF ts = <<>> THEN 0 ELSE ts[1].realized_pnl + SumRealized(Tail(ts))

\* C9: a shutdown closes every position open at that moment with reason
\* manual at the last-known price of its symbol, and the account state it
\* persists records no open position and the balance with the realized
\* PnL of those closes; that state stays the last one persisted.
C9_ShutdownClosesThenPersists ==
    /\ [](shutdowns > 0 =>
            /\ account.positions = <<>>
            /\ tradingStore.account_state.open_positions = 0
            /\ tradingStore.account_state.balance = account.balance
            /\ tradingStore.account_state.total_trades = Len(account.trades))
    /\ [][shutdowns' # shutdowns =>
         /\ Len(NewTrades) = Len(account.positions)
         /\ \A i \in DOMAIN account.positions :
               /\ NewTrades[i].symbol = account.positions[i].symbol
               /\ NewTrades[i].side = account.positions[i].side
               /\ NewTrades[i].entry_time = account.positions[i].entry_time
               /\ NewTrades[i].exit_reason = "manual"
               /\ NewTrades[i].exit_price = latestPrices[account.positions[i].symbol]
         /\ account'.positions = <<>>
         /\ tradingStore'.account_state.present
         /\ tradingStore'.account_state.open_positions = 0
         /\ tradingStore'.account_state.balance = account.balance + SumRealized(NewTrades)
         /\ tradingStore'.account_state.total_trades = Len(account.trades) + Len(account.positions)
         /\ tradingStore'.trades = tradingStore.trades \o NewTrades]_vars

\* C9 witness: after a shutdown that closed two positions, one of them at a
\* price other than its entry price.
C9_Witness ==
    /\ shutdowns = 1
    /\ Len(account.trades) >= 2
    /\ account.trades[Len(account.trades)].exit_reason = "manual"
    /\ account.trades[Len(account.trades) - 1].exit_reason = "manual"
    /\ \E i \in DOMAIN account.trades :
          /\ account.trades[i].exit_reason = "manual"
          /\ account.trades[i].exit_price # account.trades[i].entry_price
    /\ tradingStore.account_state.balance = account.balance
    /\ account.balance # AccountConfig.initial_balance

OpenRejections == {"size", "max_positions", "insufficient_margin", "margin_ratio"}

\* C10: a rejected open_position call leaves the balance, the positions, the
\* per-symbol index, the trade list and the counters as they were.
C10_RejectionChangesNothing ==
    [][(lastCall'.op = "open_position" /\ tradeSteps' # tradeSteps
        /\ lastCall'.result \in OpenRejections)
       => UNCHANGED <<account, posIndex, opened>>]_vars

\* C10 witness: a call rejected for the margin ratio while a position is
\* open and the balance has already paid a commission.
C10_Witness ==
    /\ lastCall = [op |-> "open_position", result |-> "margin_ratio"]
    /\ Len(account.positions) = 1
    /\ account.balance < AccountConfig.initial_balance

-----------------------------------------------------------------------------
\* An event of check_all that was not handed to the notifier.
Suppressed(i) ==
    ~\E j \in 1..Len(notified) :
        /\ notified[j].symbol = emitted[i].symbol
        /\ notified[j].alert_type = emitted[i].alert_type
        /\ notified[j].timestamp = emitted[i].timestamp

\* C11: every event the risk filter suppressed on the detector path has a
\* row in the alerts table with was_filtered true and a non-empty
\* filter_reason.
C11_SuppressedAlertStored ==
    \A i \in 1..Len(emitted) :
        Suppressed(i) =>
            \E k \in 1..Len(alertRows) :
                /\ alertRows[k].symbol = emitted[i].symbol
                /\ alertRows[k].alert_type = emitted[i].alert_type
                /\ alertRows[k].was_filtered
                /\ alertRows[k].filter_reason # ""

\* A label computed from at least one recorded future price.  Every price
\* of PriceHistories and PriceRows differs from the base price, so a return
\* of 0 in every window means that no future price was found.
LabelHasData(l) == \E w \in LabelWindows : l.returns[w] # 0

\* C12: in a try_generate_labels call, an entry with a usable base price
\* leaves the pending queue only as a label computed from recorded future
\* prices, or because its age exceeds maxWait; an entry for which no future
\* price is found stays pending until then and yields no label.
C12_PendingUntilMaxWait ==
    [][registered' = registered =>
        \A s \in LabelSymbols : \A i \in 1..Len(pending[s]) :
            LET f == pending[s][i]
            IN  (/\ f.price # 0
                 /\ lgNow - f.timestamp <= MaxWaitSeconds
                 /\ f \notin SeqToSet(pending'[s]))
                => \E k \in 1..Len(generated') :
                      /\ generated'[k].timestamp = f.timestamp
                      /\ LabelHasData(generated'[k])]_vars

\* A sequence of features or labels in ascending feature timestamp.
AscendingTs(q) ==
    \A i, j \in 1..Len(q) : i < j => q[i].timestamp <= q[j].timestamp

\* C13: a try_generate_labels call that changes the pending queue, wherever
\* it falls among the register_feature calls, leaves in it exactly the
\* entries younger than maxLabelWindow, in the order they had, which is
\* ascending feature timestamp; the labels it returns are in that order too.
C13_YoungEntriesKeptInOrder ==
    [][\A s \in LabelSymbols :
          /\ AscendingTs(pending[s])
          /\ (registered' = registered /\ pending'[s] # pending[s]) =>
                /\ pending'[s] =
                      SelectSeq(pending[s],
                                LAMBDA f : lgNow - f.timestamp < MaxLabelWindow)
                /\ AscendingTs(pending'[s])
                /\ generated' # generated => AscendingTs(generated')]_vars

\* C13 witness: a call returned a label and kept a younger entry, and a
\* feature registered after the call stands behind the kept one.
C13_Witness ==
    \E s \in LabelSymbols :
        /\ Len(generated) = 1
        /\ Len(pending[s]) = 2
        /\ pending[s][1].timestamp > generated[1].timestamp
        /\ pending[s][1].timestamp < pending[s][2].timestamp
        /\ lgNow - pending[s][1].timestamp < MaxLabelWindow

\* C14: after a register_feature call the symbol's pending queue holds at
\* most maxPendingPerSymbol entries, none older than maxWait, the new
\* feature is its last entry, and an entry that left the queue in the call
\* had reached maxWait or was not newer than any entry that stayed; nothing
\* is dropped beyond that.
C14_RegisterBoundsQueue ==
    [][registered' # registered =>
        \A s \in LabelSymbols :
            LET q == pending'[s]
                fresh == SelectSeq(pending[s],
                                   LAMBDA f : lgNow - f.timestamp < MaxWaitSeconds)
            IN  /\ Len(q) <= MaxPendingPerSymbol
                /\ \A i \in 1..Len(q) : lgNow' - q[i].timestamp <= MaxWaitSeconds
                /\ Len(q) = IF Len(fresh) + 1 > MaxPendingPerSymbol
                             THEN MaxPendingPerSymbol ELSE Len(fresh) + 1
                /\ q[Len(q)].timestamp = lgNow
                /\ \A f \in SeqToSet(pending[s]) \ SeqToSet(q) :
                      \/ lgNow - f.timestamp >= MaxWaitSeconds
                      \/ \A i \in 1..Len(q) : f.timestamp <= q[i].timestamp]_vars

\* C14 witness: the third registration found the queue full and dropped
\* its oldest entry; no try_generate_labels call has removed anything.
C14_Witness ==
    \E s \in LabelSymbols :
        /\ registered = MaxPendingPerSymbol + 1
        /\ droppedCount = 1
        /\ generatedCount = 0
        /\ Len(pending[s]) = MaxPendingPerSymbol
        /\ pending[s][1].timestamp < pending[s][2].timestamp
        /\ pending[s][Len(pending[s])].timestamp = lgNow

\* The recorded points of a set at the smallest distance from target, among
\* those less than (strict) or at most (not strict) 5 seconds away.
Nearest(points, target, strict) ==
    LET near == {pt \in points :
                    IF strict THEN Abs(pt.timestamp - target) < PriceTolerance
                    ELSE Abs(pt.timestamp - target) <= PriceTolerance}
    IN  {pt \in near : \A o \in near :
            Abs(pt.timestamp - target) <= Abs(o.timestamp - target)}

\* The returns a label may carry for window w: computed from a nearest
\* point of the tracker if it has one in tolerance, else from a nearest
\* row of the data store, else 0.
ExpectedReturns(l, base, w, strictTracker) ==
    LET target == l.timestamp + w
        inTracker == Nearest(SeqToSet(priceSeen.history), target, strictTracker)
        inStore == Nearest(priceSeen.rows, target, FALSE)
    IN  IF inTracker # {}
        THEN {((pt.price - base) * 100) \div base : pt \in inTracker}
        ELSE IF inStore # {}
        THEN {((pt.price - base) * 100) \div base : pt \in inStore}
        ELSE {0}

DetectorOrder(s, k) ==
    (IF s = "AAAUSDT" THEN 0 ELSE 2) + (IF k = "price_change" THEN 0 ELSE 1)

\* The (symbol, kind) detector returned an event in this process_tickers call.
DetectorFired(s, k) ==
    \E i \in (Len(emitted) + 1)..Len(emitted') :
        emitted'[i].symbol = s /\ emitted'[i].alert_type = k

\* The clock reading at which the detector ran: the clock of the call,
\* advanced by its drift once an earlier detector of the call has fired.
DetectorTime(s, k) ==
    IF \E i \in (Len(emitted) + 1)..Len(emitted') :
          DetectorOrder(emitted'[i].symbol, emitted'[i].alert_type)
              < DetectorOrder(s, k)
    THEN clock' ELSE clock

\* The conditions of an event for (symbol, kind): detector enabled, symbol
\* not filtered out, cooldown passed, a tier selected, and the metric of the
\* kind known and above the tier's threshold (strict) or at least equal to
\* it (not strict) in absolute value.
DetectorConditions(s, k, strict) ==
    LET t == DetectorTime(s, k)
        metric == IF k = "price_change"
                  THEN GetPriceChange(trackers', s, settings.price_window, t)
                  ELSE GetOiChange(trackers', s, settings.oi_window, t)
        tier == GetTier(settings.tiers, GetOiValue(trackers', s))
        threshold == IF k = "price_change" THEN tier.price_threshold
                     ELSE tier.oi_threshold
    IN  /\ IF k = "price_change" THEN settings.price_enabled
          ELSE settings.oi_enabled
        /\ settings.filter_mode = "whitelist" => s \in settings.whitelist
        /\ settings.filter_mode = "blacklist" => s \notin settings.blacklist
        /\ t - cooldowns[<<s, k>>] > settings.cooldown
        /\ tier # NoTier
        /\ metric.some
        /\ IF strict THEN Abs(metric.num) > threshold * metric.den
          ELSE Abs(metric.num) >= threshold * metric.den

FittingTiers(value) ==
    {settings.tiers[i] : i \in {j \in 1..Len(settings.tiers) :
                                  settings.tiers[j].min_quote_volume <= value}}

\* C17: for every tracked symbol, the tier selected for its position value
\* (latest price times latest open interest) is a configured tier with the
\* largest lower bound not above that value, whatever the configured order,
\* and no tier is selected exactly when the value is below every lower bound.
C17_LargestFittingTier ==
    \A s \in DOMAIN trackers :
        LET value == trackers[s].latest_price * trackers[s].latest_oi
            tier == GetTier(settings.tiers, GetOiValue(trackers, s))
        IN  IF FittingTiers(value) = {} THEN tier = NoTier
            ELSE /\ tier \in FittingTiers(value)
                 /\ \A o \in FittingTiers(value) :
                       o.min_quote_volume <= tier.min_quote_volume

\* C17 witness: with three tiers configured out of order, an event was
\* returned under the tier configured last, whose lower bound is the
\* largest, for a symbol whose position value reaches it.
C17_Witness ==
    /\ Len(settings.tiers) = 3
    /\ settings.tiers[1].min_quote_volume > settings.tiers[2].min_quote_volume
    /\ settings.tiers[3].min_quote_volume > settings.tiers[1].min_quote_volume
    /\ \E s \in DOMAIN trackers : \E i \in 1..Len(emitted) :
          /\ emitted[i].symbol = s
          /\ emitted[i].tier_label = settings.tiers[3].label
          /\ trackers[s].latest_price * trackers[s].latest_oi
                >= settings.tiers[3].min_quote_volume

\* Each point of a history is stamped no earlier than the one before it.
NonDecreasingTs(history) ==
    \A i \in 1..(Len(history) - 1) :
        history[i].timestamp <= history[i + 1].timestamp

\* C18: for every tracked symbol the price, OI and spot histories are
\* non-decreasing in timestamp, whatever the order in which ticker frames,
\* OI polls, spot polls and cleanups arrive, with the rings full and points
\* old enough to be cleaned up.
C18_HistoriesOrdered ==
    \A s \in DOMAIN trackers :
        /\ NonDecreasingTs(trackers[s].price_history)
        /\ NonDecreasingTs(trackers[s].oi_history)
        /\ NonDecreasingTs(trackers[s].spot_price_history)
        /\ Len(trackers[s].price_history) <= PriceHistoryMaxLen
        /\ Len(trackers[s].oi_history) <= OiHistoryMaxLen
        /\ Len(trackers[s].spot_price_history) <= SpotHistoryMaxLen

\* C18 witness: a symbol whose full price ring took a new point, whose full
\* spot ring took a new point, and whose price and OI histories then lost
\* their older half to a cleanup, a later ticker and a later OI poll
\* standing behind the points that were kept.
C18_Witness ==
    \E s \in DOMAIN trackers :
        LET ph == trackers[s].price_history
            oh == trackers[s].oi_history
            sh == trackers[s].spot_price_history
        IN  /\ lastCleanup = CleanupMaxAge + 500
            /\ Len(ph) > 2 /\ Len(ph) < PriceHistoryMaxLen
            /\ ph[1].timestamp = 500
            /\ ph[Len(ph)].timestamp = lastCleanup
            /\ ph[Len(ph) - 1].timestamp = PriceHistoryMaxLen
            /\ ph[Len(ph) - 2].timestamp = PriceHistoryMaxLen
            /\ Len(oh) > 1 /\ Len(oh) < OiHistoryMaxLen
            /\ oh[Len(oh)].timestamp = lastCleanup
            /\ Len(sh) = SpotHistoryMaxLen
            /\ sh[1].timestamp = 20
            /\ sh[Len(sh)].timestamp = lastCleanup

\* The last clock reading at which the symbol's tracker was updated by a
\* ticker, a spot poll or an OI poll.
LastUpdateOf(s) ==
    LET tr == trackers[s]
        oiTs == IF tr.oi_history = <<>> THEN -1
                ELSE tr.oi_history[Len(tr.oi_history)].timestamp
    IN  SetMax({tr.last_update, tr.last_spot_update, oiTs})

\* C19: no symbol is tracked whose last update lies maxAge seconds or more
\* before the last cleanup.
C19_StaleSymbolAgedOut ==
    \A s \in DOMAIN trackers :
        lastCleanup - LastUpdateOf(s) < CleanupMaxAge

\* The capacity the notifier's queue is compared with; a longer burst of
\* alerts exceeds any other.
QueueCapacity == 2

\* C20: the notifier's queue never holds more than a fixed number of
\* notifications.
C20_QueueBounded == Len(NotifierQueue) <= QueueCapacity

\* The process_tickers call of this step applied to symbol s a ticker equal
\* to the one the tracker had last recorded for it (same price, volume and
\* timestamp), with the clock unchanged.
SameTickerAgain(s) ==
    /\ batches' # batches
    /\ clock' = clock
    /\ s \in DOMAIN trackers
    /\ trackers[s].price_history # <<>>
    /\ LET old == trackers[s].price_history
           new == trackers'[s].price_history
       IN  new[Len(new)] = old[Len(old)]

\* C21: applying the same ticker to the tracker a second time leaves the
\* symbol's price change as it was after the first application.
C21_SameTickerSameIndicators ==
    [][\A s \in AlertSymbols :
          SameTickerAgain(s) =>
              GetPriceChange(trackers', s, settings.price_window, clock')
                  = GetPriceChange(trackers, s, settings.price_window, clock)]_vars

\* The snapshot or equity point written in this step.
SnapshotWritten ==
    \/ tradingStore'.account_state # tradingStore.account_state
    \/ Len(tradingStore'.equity_points) > Len(tradingStore.equity_points)

\* C22: every account snapshot and every equity-curve point written to the
\* trading store carries the balance of the account at that moment, an
\* equity equal to that balance plus the unrealized PnL summed over the
\* positions then open, and as margin used the sum of their margins.
C22_SnapshotIdentity ==
    [][SnapshotWritten =>
          LET snap == tradingStore'.account_state
              pts == tradingStore'.equity_points
          IN  /\ snap.balance = account'.balance
              /\ snap.equity = account'.balance + SumUnrealized(account'.positions)
              /\ snap.margin_used = SumMargin(account'.positions)
              /\ snap.open_positions = Len(account'.positions)
              /\ Len(pts) > Len(tradingStore.equity_points) =>
                    /\ pts[Len(pts)].balance = account'.balance
                    /\ pts[Len(pts)].equity
                           = account'.balance + SumUnrealized(account'.positions)]_vars

\* A snapshot was saved while a position with a gain or a loss was open.
C22_Witness ==
    /\ tradingStore.account_state.present
    /\ tradingStore.account_state.open_positions > 0
    /\ tradingStore.account_state.equity # tradingStore.account_state.balance
    /\ tradingStore.equity_points # <<>>

\* The trades the account recorded and the trades the trading store holds.
RecordedTrades == SeqToSet(account.trades) \cup SeqToSet(tradingStore.trades)

C24_SignalOnlyWhenQualified ==
    strategyCall.signal.present =>
        LET cfg == strategyCall.config
            f == strategyCall.feature[1]
            score == strategyCall.score
            magnitude == IF ScoreLess(score, <<0, 0>>)
                         THEN <<-score[1], -score[2]>> ELSE score
            signal == strategyCall.signal
            terms == ScoreTerms(cfg, f)
        IN  /\ score[1] = terms[1] + terms[2] + terms[3] + terms[4] + terms[5]
            /\ ScoreLess(<<cfg.signal_threshold, 0>>, magnitude)
            /\ signal.confidence
                   = (IF ScoreLess(magnitude, <<1000, 0>>) THEN magnitude
                      ELSE <<1000, 0>>)
            /\ ~ScoreLess(signal.confidence, <<cfg.min_confidence, 0>>)
            /\ signal.side = (IF ScoreLess(<<0, 0>>, score) THEN "long" ELSE "short")
            /\ f.spread_bps # <<>> => f.spread_bps[1] <= 100
            /\ f.imbalance_ratio_10 # <<>> =>
                  f.imbalance_ratio_10[1] >= 5 /\ f.imbalance_ratio_10[1] <= 95

\* A SHORT signal was returned for a score that is the threshold in decimal
\* and beyond it as computed, with a confidence below the default minimum,
\* for a feature at the edge of the risk check.
C24_Witness ==
    /\ strategyCall.calls = 1
    /\ strategyCall.signal.present
    /\ strategyCall.signal.side = "short"
    /\ strategyCall.score = <<-strategyCall.config.signal_threshold, -1>>
    /\ strategyCall.signal.confidence[1] < StrategyConfig.min_confidence
    /\ strategyCall.feature[1].spread_bps = <<100>>
    /\ strategyCall.feature[1].imbalance_ratio_10 = <<5>>

\* The account as open_position found it when it accepted the position this
\* step added: the positions without the new one, and the balance before
\* the opening commission was charged.
BeforeOpening ==
    LET new == account'.positions[Len(account'.positions)]
    IN  [positions |-> SubSeq(account'.positions, 1, Len(account'.positions) - 1),
         balance |-> account'.balance
                        + CalculateCommission(new.quantity, new.entry_price),
         required |-> new.margin]

\* C25: a position is added only when, at that moment, fewer than
\* max_positions are open, its margin is at most the available margin and
\* (margin used + its margin) / balance is at most max_margin_ratio; and
\* never more than max_positions are open.
C25_OpenedWithinLimits ==
    [][/\ opened' # opened =>
             LET before == BeforeOpening
                 used == SumMargin(before.positions)
             IN  /\ Len(before.positions) < AccountConfig.max_positions
                 /\ before.required <= before.balance - used
                 /\ (used + before.required) * 100
                       <= AccountConfig.max_margin_ratio * before.balance
       /\ Len(account'.positions) <= AccountConfig.max_positions]_vars

\* max_positions are open, holding more than half of the balance in margin,
\* and a further open_position call was refused for the count.
C25_Witness ==
    /\ Len(account.positions) = AccountConfig.max_positions
    /\ lastCall.result = "max_positions"
    /\ GetMarginUsed(account) * 2 > account.balance

\* The positions the account holds open on symbol s.
OpenOn(s) == {i \in DOMAIN account.positions : account.positions[i].symbol = s}

\* C26: across the feature updates of the realtime engine, the account never
\* holds more than max_positions_per_symbol open positions on one symbol.
C26_PerSymbolLimit ==
    \A s \in TradeSymbols :
        Cardinality(OpenOn(s)) <= RealtimeConfig.max_positions_per_symbol

\* Every symbol holds as many positions as it may, and a further feature
\* update opened none.
C26_Witness ==
    /\ \A s \in TradeSymbols :
          Cardinality(OpenOn(s)) = RealtimeConfig.max_positions_per_symbol
    /\ lastCall = [op |-> "on_feature_update", result |-> "skipped"]
    /\ tradeSteps = MaxTradeSteps

\* C27: when the walls the monitor saw appear and disappear for a symbol
\* number at least WallFlashCount of each within the last WallFlashWindow
\* seconds, a RiskFilter check of that symbol made now reports wall
\* manipulation.
C27_FlashingWallsFlagged ==
    \A s \in BookSymbols :
        CheckWallManipulation(wallLog[s], clock)
            => CheckWallManipulation(wallEvents[s], clock)

\* C28: the dashboard is served only when no close_position call stands
\* between the removal of its position and the recording of its trade.
C28_ReadsExcludeMutation ==
    [][dashboard'.requests # dashboard.requests => closing = <<>>]_vars

\* The tier the engine selects for the position value of tracked symbol s.
TierOf(s) == GetTier(settings.tiers, GetOiValue(trackers, s))

\* C30: for any two tracked symbols, the one with the larger position value
\* is given a tier whenever the other is, and one whose lower bound is at
\* least that of the other's.
C30_TierMonotone ==
    \A s1, s2 \in DOMAIN trackers :
        (GetOiValue(trackers, s1) <= GetOiValue(trackers, s2)
         /\ TierOf(s1) # NoTier)
            => /\ TierOf(s2) # NoTier
               /\ TierOf(s2).min_quote_volume >= TierOf(s1).min_quote_volume

\* Two tracked symbols with different position values are given different
\* tiers, under tiers configured out of order.
C30_Witness ==
    /\ Len(settings.tiers) = 3
    /\ settings.tiers[1].min_quote_volume > settings.tiers[2].min_quote_volume
    /\ \E s1, s2 \in DOMAIN trackers :
          /\ GetOiValue(trackers, s1) < GetOiValue(trackers, s2)
          /\ TierOf(s1) # NoTier
          /\ TierOf(s2).min_quote_volume > TierOf(s1).min_quote_volume

\* C29: a compute_features call leaves the tracker as it was (no entry made,
\* no history changed), leaves the label generator as it was, and returns no
\* vector for a symbol with fewer than 5 price points.
C29_ComputeFeaturesReadsOnly ==
    [][featureCall'.calls # featureCall.calls =>
          /\ trackers' = trackers
          /\ UNCHANGED labelVars
          /\ (\/ featureCall'.symbol \notin DOMAIN trackers
              \/ Len(TrackerOf(trackers, featureCall'.symbol).price_history) < 5)
                 => featureCall'.result = <<>>]_vars

\* Calls have been made; the last one, on a symbol the tracker does not hold
\* while another symbol has 5 points, returned nothing.
C29_Witness ==
    /\ featureCall.calls = MaxFeatureCalls
    /\ featureCall.symbol \notin DOMAIN trackers
    /\ featureCall.result = <<>>
    /\ \E s \in DOMAIN trackers : Len(trackers[s].price_history) = 5

\* A call returned a vector.
FeatureReturned == featureCall.result # <<>>

\* A call on a symbol with 4 points returned nothing.
FeatureWithheld ==
    /\ featureCall.calls > 0
    /\ featureCall.symbol \in DOMAIN trackers
    /\ Len(trackers[featureCall.symbol].price_history) = 4
    /\ featureCall.result = <<>>

\* C31: after process_snapshot the tracked walls of a symbol are walls of the
\* stored snapshot: each stands on its side of that snapshot, at its price,
\* with its quantity; a wall the snapshot no longer holds is not tracked.
C31_TrackedWallsInSnapshot ==
    \A s \in BookSymbols :
        snapshots[s].present =>
            \A i \in 1..Len(trackedWalls[s]) :
                CurrentQty(snapshots[s], trackedWalls[s][i])
                    = trackedWalls[s][i].quantity

\* C32: a check made with a receive time filters the alert when the latency
\* (receive time minus the ticker's stamp) exceeds the configured
\* max_ws_latency_ms, and gives no latency reason when it does not.
C32_LatencyAgainstConfiguredBound ==
    (riskCall.calls > 0 /\ riskCall.ws_receive_time # <<>>) =>
        LET wsLatencyMs == riskCall.ws_receive_time[1] - riskCall.ticker[1]
        IN  /\ wsLatencyMs > riskCall.config.max_ws_latency_ms => riskCall.filtered
            /\ wsLatencyMs <= riskCall.config.max_ws_latency_ms
                  => "latency" \notin GetFilterReasons(riskCall.result[1])

\* The prices the last check found within fake_signal_window go
\* 100 -> 103 -> 100.1: they start at 100, peak at 103 and stand at 100.1.
CheckedPath ==
    LET InWindow(p) == p.timestamp >= riskCall.now - FakeSignalWindow
        w == SelectSeq(riskCall.history, InWindow)
    IN  /\ riskCall.calls > 0
        /\ w # <<>>
        /\ w[1].price = 1000
        /\ w[Len(w)].price = 1001
        /\ \E i \in 1..Len(w) : w[i].price = 1030
        /\ \A i \in 1..Len(w) : w[i].price \in {1000, 1001, 1030}

\* C33 as stated: a check on a path 100 -> 103 -> 100.1 within the window
\* flags a fake signal and filters the alert.
C33_FakePathFiltered ==
    CheckedPath => riskCall.result[1].is_fake_signal /\ riskCall.filtered

\* C33: a check on a path 100 -> 103 -> 100.1 within the window flags a fake
\* signal and filters the alert when the symbol has at least 10 price
\* points, at least 5 of them within the window.
C33_SampledFakePathFiltered ==
    LET InWindow(p) == p.timestamp >= riskCall.now - FakeSignalWindow
    IN  (/\ CheckedPath
         /\ Len(riskCall.history) >= 10
         /\ Len(SelectSeq(riskCall.history, InWindow)) >= 5)
            => riskCall.result[1].is_fake_signal /\ riskCall.filtered

\* A check on such a path of 10 points flagged the fake signal.
C33_Witness ==
    /\ CheckedPath
    /\ Len(riskCall.history) = 10
    /\ riskCall.result[1].is_fake_signal
    /\ riskCall.filtered
    /\ "latency" \notin GetFilterReasons(riskCall.result[1])

\* The position ids of the persisted rows with status open.
OpenRows ==
    {tradingStore.positions[i].position_id :
        i \in {j \in DOMAIN tradingStore.positions :
                  tradingStore.positions[j].status = "open"}}

\* C34: the persisted rows with status open are the positions open in the
\* account.
C34_OpenRowsMatchAccount ==
    OpenRows = {account.positions[i].position_id : i \in DOMAIN account.positions}

\* C35: a cleanup_old_data call leaves in each history of each symbol
\* (price, OI, spot) exactly the entries that are not older than the clock
\* reading minus max_age.
C35_CleanupEvictsByAge ==
    [][lastCleanup' # lastCleanup =>
          \A s \in DOMAIN trackers :
              LET Fresh(p) == p.timestamp >= clock - CleanupMaxAge
              IN  /\ trackers'[s].price_history
                        = SelectSeq(trackers[s].price_history, Fresh)
                  /\ trackers'[s].oi_history
                        = SelectSeq(trackers[s].oi_history, Fresh)
                  /\ trackers'[s].spot_price_history
                        = SelectSeq(trackers[s].spot_price_history, Fresh)]_vars

\* C36: the last-emit timestamp of a (symbol, kind) changes only in a step
\* that hands an event of that symbol and kind to the notifier sink.
C36_CooldownBeginsOnEmission ==
    [][\A k \in AlertSymbols \X AlertKinds :
          cooldowns'[k] # cooldowns[k] =>
              \E i \in (Len(notified) + 1)..Len(notified') :
                  /\ notified'[i].symbol = k[1]
                  /\ notified'[i].alert_type = k[2]]_vars

\* C37: every feature waiting in the pending queue eventually leaves it.
C37_PendingEventuallyLeaves ==
    \A s \in LabelSymbols, t \in {r \in ClockReadings : r <= WaitBuffer},
       p \in FeaturePrices :
        (Feature(s, t, p) \in SeqToSet(pending[s]))
            ~> (Feature(s, t, p) \notin SeqToSet(pending[s]))

\* The only feature ever registered has left the queue with a label.
C37_Witness ==
    /\ registered = 1
    /\ \A s \in LabelSymbols : pending[s] = <<>>
    /\ generatedCount = 1
    /\ droppedCount = 0

\* C38: every position ever created is either still open or has exactly one
\* trade, and the trade counter equals the length of the trade list, also
\* after MonitorApp.stop has run twice.
C38_OneTradePerPosition ==
    /\ opened = Len(account.positions) + Len(account.trades)
    /\ account.total_trades = Len(account.trades)

\* Shutdown has run twice after positions were opened; some were closed by
\* an exit check and the rest by the first close-all.
C38_Witness ==
    /\ shutdowns = MaxStopCalls
    /\ opened >= 2
    /\ account.positions = <<>>
    /\ \E i \in DOMAIN account.trades : account.trades[i].exit_reason = "manual"
    /\ \E i \in DOMAIN account.trades : account.trades[i].exit_reason # "manual"

\* C39: with any stop-loss method, an exit check of a position that carries
\* a stop_loss_price, at a price at or beyond that level, exits the position.
C39_StopPriceHonoured ==
    \A i \in DOMAIN exitChecks :
        LET c == exitChecks[i]
        IN  (/\ c.position.stop_loss_price # 0
             /\ IF c.position.side = "long"
                THEN c.price * LevelScale <= c.position.stop_loss_price
                ELSE c.price * LevelScale >= c.position.stop_loss_price)
                => c.reason # "none"

\* The same under the methods that begin with the fixed stop.
C39_FixedStopHonoured ==
    stopLossMethod \in {"fixed", "atr", "multiple"} => C39_StopPriceHonoured

\* C40: a position id is listed in the position manager's index under its
\* symbol exactly when the account holds an open position of that id and
\* symbol.
C40_IndexMatchesAccount ==
    \A s \in TradeSymbols :
        SeqToSet(posIndex[s])
            = {account.positions[i].position_id :
                  i \in {j \in DOMAIN account.positions :
                            account.positions[j].symbol = s}}

=============================================================================
